---- MODULE Spec2Model ----
(***************************************************************************)
(* SASP / SCIL 2025: payroll cross-reference audit.                        *)
(*                                                                         *)
(* The module models the record store (registros_laborales), the entity    *)
(* catalog (entes + municipios) with its cached index, the cross-reference *)
(* detector, the access filter, the reviews (solventaciones) and the query *)
(* handlers of app.py.                                                     *)
(*                                                                         *)
(*   Spec                   the record store under ingestion and a clock   *)
(*   SpecVistas             login and the query handlers                   *)
(*   SpecCruces             obtener_cruces_reales over a stored record set *)
(*   SpecAcceso             _allowed_all applied to token lists            *)
(*   SpecCatalogo           seeding of the catalog, reads of its indexes   *)
(*   SpecRevision           the reviews (solventaciones), the detail view  *)
(*   SpecEscritores         two concurrent calls of the upsert             *)
(*   SpecPropiedad          ingestion, reviews, detector and export        *)
(*   SpecExport             the exports over the records of one rfc        *)
(*   SpecIngesta            upload_laboral over workbooks of two sheets    *)
(*   SpecListado            the catalog page over tables with dotted nums  *)
(*   SpecDetectores         the two detectors over one record set          *)
(*   SpecExportConcurrente  an export served together with reviews         *)
(*   SpecAgrupado           the grouped view of one rfc at three entities  *)
(***************************************************************************)
EXTENDS Integers, Sequences, FiniteSets, Bags, TLC

VARIABLES
    entes,                \* table entes, rows in rowid order
    municipios,           \* table municipios, rows in rowid order
    entes_cache,          \* lru_cache of _entes_cache(): [cargado, data]
    registros_laborales,  \* table registros_laborales, a bag of rows
    reloj,                \* CURRENT_TIMESTAMP, in whole seconds
    carga,                \* guardar_registros_individuales in progress: [activa, ...]
    session,              \* Flask session: [autenticado, entes]
    respuesta,            \* the response of the last handler that returned
    solventaciones,       \* table solventaciones, a bag of rows
    escritores,           \* concurrent calls of guardar_registros_individuales
    data_processor,       \* DataProcessor: [mapa_siglas, mapa_inverso]
    peticion,             \* request.files of the upload being served
    exportacion           \* _construir_filas_export in progress: [pc, ...]

vars == <<entes, municipios, entes_cache, registros_laborales, reloj, carga,
          session, respuesta, solventaciones, escritores, data_processor,
          peticion, exportacion>>

\* Python None and SQL NULL.
None == "<None>"

\* The state of an rfc nobody has reviewed.
SinValoracion == "Sin valoración"

(***************************************************************************)
(* Bounds of the model.                                                    *)
(***************************************************************************)
MaxRfc == 2
MaxQna == 2
MaxReloj == 1
MaxLote == 2
MaxRegistros == 2
MaxRfcVista == 1
MaxRegistrosVista == 2
MaxRegistrosCruces == 4
MaxTokens == 2
MaxSolventaciones == 2

(***************************************************************************)
(* Python str operations used by the code: strip(), upper(), `in`.         *)
(***************************************************************************)
Minusculas == "abcdefghijklmnopqrstuvwxyz"
Mayusculas == "ABCDEFGHIJKLMNOPQRSTUVWXYZ"

Char(s, i) == SubSeq(s, i, i)

\* The accented letters of the model's alphabet and their capitals.
Acentuadas == "áéíóúñ"
AcentuadasMayusculas == "ÁÉÍÓÚÑ"

\* Python str.upper(): the capital of every small letter, accented or not.
EnMayuscula ==
    LET min == Minusculas \o Acentuadas
        may == Mayusculas \o AcentuadasMayusculas
    IN [c \in {Char(min, i) : i \in 1..Len(min)} |->
           Char(may, CHOOSE i \in 1..Len(min) : Char(min, i) = c)]

UpperChar(c) == IF c \in DOMAIN EnMayuscula THEN EnMayuscula[c] ELSE c

RECURSIVE Upper(_)
Upper(s) ==
    IF Len(s) = 0 THEN "" ELSE UpperChar(Char(s, 1)) \o Upper(SubSeq(s, 2, Len(s)))

RECURSIVE LStrip(_)
LStrip(s) ==
    IF Len(s) > 0 /\ Char(s, 1) = " " THEN LStrip(SubSeq(s, 2, Len(s))) ELSE s

RECURSIVE RStrip(_)
RStrip(s) ==
    IF Len(s) > 0 /\ Char(s, Len(s)) = " " THEN RStrip(SubSeq(s, 1, Len(s) - 1)) ELSE s

Strip(s) == RStrip(LStrip(s))

\* Python `t in s` for strings.
Contains(s, t) ==
    \E i \in 1..(Len(s) - Len(t) + 1) : SubSeq(s, i, i + Len(t) - 1) = t

\* BINARY collation of SQLite's ORDER BY, over the characters the model uses.
Ascii == " .0123456789ABCDEFGHIJKLMNOPQRSTUVWXYZ_abcdefghijklmnopqrstuvwxyz"

Codigos ==
    [c \in {Char(Ascii, i) : i \in 1..Len(Ascii)} |->
        CHOOSE i \in 1..Len(Ascii) : Char(Ascii, i) = c]

Code(c) == Codigos[c]

RECURSIVE StrLess(_, _)
StrLess(a, b) ==
    IF Len(b) = 0 THEN FALSE
    ELSE IF Len(a) = 0 THEN TRUE
    ELSE IF Char(a, 1) = Char(b, 1)
         THEN StrLess(SubSeq(a, 2, Len(a)), SubSeq(b, 2, Len(b)))
         ELSE Code(Char(a, 1)) < Code(Char(b, 1))

Digitos == "0123456789"

IsDigit(s) ==
    /\ Len(s) > 0
    /\ \A i \in 1..Len(s) : \E d \in 1..Len(Digitos) : Char(Digitos, d) = Char(s, i)

RECURSIVE ToInt(_)
ToInt(s) ==
    IF Len(s) = 0 THEN 0
    ELSE 10 * ToInt(SubSeq(s, 1, Len(s) - 1))
         + (CHOOSE d \in 1..Len(Digitos) : Char(Digitos, d) = Char(s, Len(s))) - 1

\* str(s or "").strip().upper()
SanitizeText(s) == Upper(Strip(IF s = None THEN "" ELSE s))

\* `x or d` for a string or None.
Or(x, d) == IF x = None \/ x = "" THEN d ELSE x

(***************************************************************************)
(* Entity catalog: the rows of entes and municipios the model runs with.   *)
(***************************************************************************)
CatalogoEntes ==
    << [num |-> "1.2", clave |-> "ENTE_A", nombre |-> "Gobierno",
        siglas |-> "SEGOB", activo |-> 1] >>

CatalogoMunicipios ==
    << [num |-> "1", clave |-> "MUN_1", nombre |-> "Acuamanala",
        siglas |-> None, activo |-> 1] >>

\* Python dict as a sequence of [k, v] in insertion order: d[k] = v.
DictPut(d, k, v) ==
    IF \E i \in 1..Len(d) : d[i].k = k
    THEN [i \in 1..Len(d) |-> IF d[i].k = k THEN [k |-> k, v |-> v] ELSE d[i]]
    ELSE Append(d, [k |-> k, v |-> v])

DictKeys(d) == {d[i].k : i \in 1..Len(d)}

DictGet(d, k) == d[CHOOSE i \in 1..Len(d) : d[i].k = k].v

\* SELECT ... FROM entes UNION ALL SELECT ... FROM municipios (every row,
\* active or not), with the literal column tipo.
FilasCatalogo(es, ms) ==
    [i \in 1..Len(es) |-> [clave |-> es[i].clave, siglas |-> es[i].siglas,
                           nombre |-> es[i].nombre, tipo |-> "ENTE"]]
    \o
    [i \in 1..Len(ms) |-> [clave |-> ms[i].clave, siglas |-> ms[i].siglas,
                           nombre |-> ms[i].nombre, tipo |-> "MUNICIPIO"]]

EntradaCache(r) ==
    [siglas |-> Upper(Strip(Or(r.siglas, ""))),
     nombre |-> Upper(Strip(Or(r.nombre, ""))),
     tipo   |-> r.tipo]

RECURSIVE ConstruirCache(_, _)
ConstruirCache(filas, data) ==
    IF filas = <<>> THEN data
    ELSE ConstruirCache(Tail(filas),
                        DictPut(data, Upper(Strip(Or(Head(filas).clave, ""))),
                                EntradaCache(Head(filas))))

\* _entes_cache(): the cached dict, built on the first call.
EntesCache ==
    IF entes_cache.cargado THEN entes_cache.data
    ELSE ConstruirCache(FilasCatalogo(entes, municipios), <<>>)

CacheCargado == [cargado |-> TRUE, data |-> EntesCache]

Alias(e) == {e.v.siglas, e.v.nombre, e.k}

\* _ente_match(ente_usuario, clave_lista)
EnteMatch(ente_usuario, clave_lista) ==
    LET euser == SanitizeText(ente_usuario)
        cache == EntesCache
    IN \E c \in clave_lista :
         \E i \in 1..Len(cache) :
            /\ euser \in Alias(cache[i])
            /\ SanitizeText(c) \in Alias(cache[i])

\* Position in the cached dict of the first entry that has s as key, acronym
\* or name; 0 when there is none.
PrimeraEntradaEn(cache, s) ==
    LET idx == {i \in 1..Len(cache) : s \in Alias(cache[i])}
    IN IF idx = {} THEN 0 ELSE CHOOSE i \in idx : \A j \in idx : i <= j

PrimeraEntrada(s) == PrimeraEntradaEn(EntesCache, s)

\* d.get("siglas") or d.get("nombre") or defecto, d being the entry at
\* position i of the cache; defecto when there is no entry.
EtiquetaEn(cache, i, defecto) ==
    IF i = 0 THEN defecto
    ELSE Or(cache[i].v.siglas, Or(cache[i].v.nombre, defecto))

EtiquetaDe(cache, s, defecto) == EtiquetaEn(cache, PrimeraEntradaEn(cache, s), defecto)

\* _ente_sigla(clave)
EnteSigla(clave) ==
    IF clave = None \/ clave = "" THEN ""
    ELSE EtiquetaDe(EntesCache, SanitizeText(clave), SanitizeText(clave))

\* _ente_display(v)
EnteDisplay(v) ==
    IF v = None \/ v = "" THEN "Sin Ente"
    ELSE EtiquetaDe(EntesCache, SanitizeText(v), v)

\* for a, b in zip("ÁÉÍÓÚ", "AEIOU"): s = s.replace(a, b)
SinAcento ==
    [c \in {Char("ÁÉÍÓÚ", i) : i \in 1..5} |->
        Char("AEIOU", CHOOSE i \in 1..5 : Char("ÁÉÍÓÚ", i) = c)]

RECURSIVE QuitarAcentos(_)
QuitarAcentos(s) ==
    IF Len(s) = 0 THEN ""
    ELSE (IF Char(s, 1) \in DOMAIN SinAcento THEN SinAcento[Char(s, 1)] ELSE Char(s, 1))
         \o QuitarAcentos(SubSeq(s, 2, Len(s)))

\* DatabaseManager._sanitize: strip, upper, then the five accented capitals
\* are replaced.
Sanitize(s) == IF s = None \/ s = "" THEN "" ELSE QuitarAcentos(Upper(Strip(s)))

\* The capital of every small ASCII letter.
AsciiMayuscula ==
    [c \in {Char(Minusculas, i) : i \in 1..Len(Minusculas)} |->
        Char(Mayusculas, CHOOSE i \in 1..Len(Minusculas) : Char(Minusculas, i) = c)]

RECURSIVE AsciiUpper(_)
AsciiUpper(s) ==
    IF Len(s) = 0 THEN ""
    ELSE (IF Char(s, 1) \in DOMAIN AsciiMayuscula THEN AsciiMayuscula[Char(s, 1)]
          ELSE Char(s, 1))
         \o AsciiUpper(SubSeq(s, 2, Len(s)))

\* SQLite UPPER(): ASCII letters only; UPPER(NULL) is NULL.
SqlUpper(s) == IF s = None THEN None ELSE AsciiUpper(s)

\* SELECT ... FROM entes WHERE activo=1 UNION ALL ... municipios WHERE activo=1
FilasActivas(es, ms) ==
    SelectSeq(es, LAMBDA r : r.activo = 1) \o SelectSeq(ms, LAMBDA r : r.activo = 1)

\* s.split(sep) for a separator of one character.
RECURSIVE SplitPor(_, _, _)
SplitPor(s, sep, actual) ==
    IF Len(s) = 0 THEN <<actual>>
    ELSE IF Char(s, 1) = sep THEN <<actual>> \o SplitPor(SubSeq(s, 2, Len(s)), sep, "")
    ELSE SplitPor(SubSeq(s, 2, Len(s)), sep, actual \o Char(s, 1))

\* s.rstrip('.')
RECURSIVE RStripPuntos(_)
RStripPuntos(s) ==
    IF Len(s) > 0 /\ Char(s, Len(s)) = "." THEN RStripPuntos(SubSeq(s, 1, Len(s) - 1))
    ELSE s

\* try: int(parte) except ValueError: 0
ParteEntera(parte) ==
    LET t == Strip(parte)
        signo == Len(t) > 0 /\ Char(t, 1) \in {"+", "-"}
        cuerpo == IF signo THEN SubSeq(t, 2, Len(t)) ELSE t
    IN IF ~IsDigit(cuerpo) THEN 0
       ELSE IF signo /\ Char(t, 1) = "-" THEN 0 - ToInt(cuerpo)
       ELSE ToInt(cuerpo)

\* orden_por_num: try: int(parte) except ValueError: 999
ParteEnteraCentinela(parte) ==
    LET t == Strip(parte)
        signo == Len(t) > 0 /\ Char(t, 1) \in {"+", "-"}
        cuerpo == IF signo THEN SubSeq(t, 2, Len(t)) ELSE t
    IN IF ~IsDigit(cuerpo) THEN 999
       ELSE IF signo /\ Char(t, 1) = "-" THEN 0 - ToInt(cuerpo)
       ELSE ToInt(cuerpo)

\* listar_entes.orden_jerarquico(item): the parts of num as a tuple of at
\* least five integers.
OrdenJerarquico(item) ==
    LET partes == SplitPor(RStripPuntos(Strip(item.num)), ".", "")
        enteros == [i \in 1..Len(partes) |-> ParteEntera(partes[i])]
    IN enteros \o [i \in 1..(5 - Len(enteros)) |-> 0]

\* a < b for Python tuples of integers.
RECURSIVE TuplaMenor(_, _)
TuplaMenor(a, b) ==
    IF b = <<>> THEN FALSE
    ELSE IF a = <<>> THEN TRUE
    ELSE IF Head(a) = Head(b) THEN TuplaMenor(Tail(a), Tail(b))
    ELSE Head(a) < Head(b)

\* data.sort(key=orden_jerarquico): stable.
RECURSIVE SortOrdenJerarquico(_)
SortOrdenJerarquico(data) ==
    IF Len(data) = 0 THEN <<>>
    ELSE LET antes == SortOrdenJerarquico(SubSeq(data, 1, Len(data) - 1))
             f == data[Len(data)]
             k == Cardinality({i \in 1..Len(antes) :
                     ~TuplaMenor(OrdenJerarquico(f), OrdenJerarquico(antes[i]))})
         IN SubSeq(antes, 1, k) \o <<f>> \o SubSeq(antes, k + 1, Len(antes))

\* DatabaseManager.listar_entes()
ListarEntes == SortOrdenJerarquico(SelectSeq(entes, LAMBDA r : r.activo = 1))

\* SQLite CAST(num AS INTEGER) of a text: the digits it begins with, 0 when
\* it begins with none.
RECURSIVE PrefijoDigitos(_)
PrefijoDigitos(s) ==
    IF Len(s) > 0 /\ IsDigit(Char(s, 1))
    THEN Char(s, 1) \o PrefijoDigitos(SubSeq(s, 2, Len(s)))
    ELSE ""

CastInteger(s) ==
    LET t == LStrip(s)
        signo == Len(t) > 0 /\ Char(t, 1) \in {"+", "-"}
        cuerpo == PrefijoDigitos(IF signo THEN SubSeq(t, 2, Len(t)) ELSE t)
    IN IF signo /\ Char(t, 1) = "-" THEN 0 - ToInt(cuerpo) ELSE ToInt(cuerpo)

\* ORDER BY CAST(num AS INTEGER), num
MunicipioMenor(a, b) ==
    \/ CastInteger(a.num) < CastInteger(b.num)
    \/ (CastInteger(a.num) = CastInteger(b.num) /\ StrLess(a.num, b.num))

RECURSIVE OrderByCastNum(_)
OrderByCastNum(filas) ==
    IF Len(filas) = 0 THEN <<>>
    ELSE LET antes == OrderByCastNum(SubSeq(filas, 1, Len(filas) - 1))
             f == filas[Len(filas)]
             k == Cardinality({i \in 1..Len(antes) : ~MunicipioMenor(f, antes[i])})
         IN SubSeq(antes, 1, k) \o <<f>> \o SubSeq(antes, k + 1, Len(antes))

\* DatabaseManager.listar_municipios()
ListarMunicipios == OrderByCastNum(SelectSeq(municipios, LAMBDA r : r.activo = 1))

\* DatabaseManager.normalizar_ente_clave(valor)
NormalizarEnteClave(valor) ==
    IF valor = None \/ valor = "" THEN None
    ELSE LET val   == Sanitize(valor)
             filas == FilasActivas(entes, municipios)
             idx   == {i \in 1..Len(filas) :
                          \/ (filas[i].siglas # None /\ SqlUpper(filas[i].siglas) = val)
                          \/ (filas[i].nombre # None /\ SqlUpper(filas[i].nombre) = val)
                          \/ (filas[i].clave # None /\ SqlUpper(filas[i].clave) = val)}
         IN IF idx = {} THEN None
            ELSE filas[CHOOSE i \in idx : \A j \in idx : i <= j].clave

(***************************************************************************)
(* Record store: registros_laborales.                                      *)
(***************************************************************************)
Rfcs == {"RFC" \o ToString(n) : n \in 1..MaxRfc}

Qnas == {"QNA" \o ToString(n) : n \in 1..MaxQna}

\* Entity labels of ingested records: two catalog keys, a label the catalog
\* does not know, and a label of blanks.
EtiquetasEnte == {"ENTE_A", "MUN_1", "X_9", " "}

\* The records a batch may hold; rfc or ente may be empty.
RegistrosEntrada ==
    [rfc : Rfcs, ente : EtiquetasEnte, qnas : SUBSET Qnas]
    \cup {[rfc |-> "", ente |-> "ENTE_A", qnas |-> Qnas],
          [rfc |-> "RFC1", ente |-> "", qnas |-> Qnas]}

FilasDe(tabla, rfc, ente) == {f \in BagToSet(tabla) : f.rfc = rfc /\ f.ente = ente}

\* Rows of the table that hold the pair, with their multiplicity.
CopiasDe(tabla, rfc, ente) ==
    BagCardinality([f \in FilasDe(tabla, rfc, ente) |-> CopiesIn(f, tabla)])

\* The same INSERT without UNIQUE(rfc, ente) and its ON CONFLICT clause.
InsertSinConflicto(tabla, reg, ahora) ==
    tabla (+) SetToBag({[rfc |-> reg.rfc, ente |-> reg.ente, qnas |-> reg.qnas,
                         fecha_carga |-> ahora, fecha_actualizacion |-> ahora]})

\* INSERT INTO registros_laborales ... ON CONFLICT(rfc, ente) DO UPDATE SET ...
\* under UNIQUE(rfc, ente): a new row, or the row of the pair overwritten
\* with fecha_carga kept.
InsertOnConflictDoUpdate(tabla, reg, ahora) ==
    LET viejas == FilasDe(tabla, reg.rfc, reg.ente)
    IN IF viejas = {}
       THEN tabla (+) SetToBag({[rfc |-> reg.rfc, ente |-> reg.ente,
                                 qnas |-> reg.qnas,
                                 fecha_carga |-> ahora,
                                 fecha_actualizacion |-> ahora]})
       ELSE LET resto == [f \in BagToSet(tabla) \ viejas |-> CopiesIn(f, tabla)]
                nuevas == [f \in {[v EXCEPT !.qnas = reg.qnas,
                                            !.fecha_actualizacion = ahora] :
                                  v \in viejas} |-> 1]
            IN resto (+) nuevas

\* SELECT COUNT(*) ... WHERE rfc=? AND ente=? AND fecha_carga < fecha_actualizacion
YaExistia(tabla, rfc, ente) ==
    \E f \in FilasDe(tabla, rfc, ente) : f.fecha_carga < f.fecha_actualizacion

SinCarga == [activa |-> FALSE, n |-> 0, insertados |-> 0, actualizados |-> 0]

\* guardar_registros_individuales: connect, counters at zero.
GuardarInicio ==
    /\ session.autenticado
    /\ ~carga.activa
    /\ carga' = [activa |-> TRUE, n |-> 0, insertados |-> 0, actualizados |-> 0]
    /\ UNCHANGED <<peticion, exportacion,
                   solventaciones, escritores, data_processor,
                   entes, municipios, entes_cache, registros_laborales, reloj,
                   session, respuesta>>

\* One iteration of `for reg in registros`.
GuardarRegistro(reg) ==
    /\ carga.activa
    /\ carga.n < MaxLote
    /\ IF reg.rfc = "" \/ reg.ente = ""
       THEN /\ carga' = [carga EXCEPT !.n = @ + 1]
            /\ UNCHANGED registros_laborales
       ELSE /\ \/ FilasDe(registros_laborales, reg.rfc, reg.ente) # {}
               \/ BagCardinality(registros_laborales) < MaxRegistros
            /\ registros_laborales' =
                   InsertOnConflictDoUpdate(registros_laborales, reg, reloj)
            /\ IF YaExistia(registros_laborales', reg.rfc, reg.ente)
               THEN carga' = [carga EXCEPT !.n = @ + 1, !.actualizados = @ + 1]
               ELSE carga' = [carga EXCEPT !.n = @ + 1, !.insertados = @ + 1]
    /\ UNCHANGED <<peticion, exportacion,
                   solventaciones, escritores, data_processor,
                   entes, municipios, entes_cache, reloj, session, respuesta>>

\* The end of the call also emptying the table solventaciones.
GuardarFinSinSolventaciones ==
    /\ carga.activa
    /\ respuesta' = [ruta |-> "upload_laboral",
                     total_procesados |-> carga.n,
                     insertados |-> carga.insertados,
                     actualizados |-> carga.actualizados]
    /\ carga' = SinCarga
    /\ solventaciones' = EmptyBag
    /\ UNCHANGED <<peticion, exportacion,
                   escritores, data_processor, entes, municipios, entes_cache,
                   registros_laborales, reloj, session>>

\* commit, close, return (insertados, actualizados); upload_laboral answers.
GuardarFin ==
    /\ carga.activa
    /\ respuesta' = [ruta |-> "upload_laboral",
                     total_procesados |-> carga.n,
                     insertados |-> carga.insertados,
                     actualizados |-> carga.actualizados]
    /\ carga' = SinCarga
    /\ UNCHANGED <<peticion, exportacion,
                   solventaciones, escritores, data_processor,
                   entes, municipios, entes_cache, registros_laborales, reloj,
                   session>>

\* A second of wall-clock time passes.
Tick ==
    /\ reloj < MaxReloj
    /\ reloj' = reloj + 1
    /\ UNCHANGED <<peticion, exportacion,
                   solventaciones, escritores, data_processor,
                   entes, municipios, entes_cache, registros_laborales, carga,
                   session, respuesta>>

(***************************************************************************)
(* Cross-reference detector: DatabaseManager.obtener_cruces_reales.        *)
(***************************************************************************)
\* ORDER BY rfc, ente
FilaMenor(a, b) ==
    \/ StrLess(a.rfc, b.rfc)
    \/ (a.rfc = b.rfc /\ StrLess(a.ente, b.ente))

RECURSIVE OrdenarFilas(_)
OrdenarFilas(tabla) ==
    IF BagToSet(tabla) = {} THEN <<>>
    ELSE LET f == CHOOSE x \in BagToSet(tabla) :
                     \A y \in BagToSet(tabla) : ~FilaMenor(y, x)
         IN <<f>> \o OrdenarFilas(tabla (-) SetToBag({f}))

\* sorted(list(S)) for a set of strings
RECURSIVE Sorted(_)
Sorted(S) ==
    IF S = {} THEN <<>>
    ELSE LET m == CHOOSE x \in S : \A y \in S : ~StrLess(y, x)
         IN <<m>> \o Sorted(S \ {m})

\* SELECT rfc, ente, ..., qnas FROM registros_laborales ORDER BY rfc, ente
SelectRegistros(tabla) ==
    LET filas == OrdenarFilas(tabla)
    IN [i \in 1..Len(filas) |->
           [rfc |-> filas[i].rfc, ente |-> filas[i].ente, qnas |-> filas[i].qnas]]

\* rfcs_map: the keys in insertion order, and the list of each key
RECURSIVE RfcsEnOrden(_, _)
RfcsEnOrden(registros, vistos) ==
    IF registros = <<>> THEN vistos
    ELSE RfcsEnOrden(Tail(registros),
                     IF \E i \in 1..Len(vistos) : vistos[i] = Head(registros).rfc
                     THEN vistos ELSE Append(vistos, Head(registros).rfc))

RegsDe(registros, rfc) == SelectSeq(registros, LAMBDA r : r.rfc = rfc)

\* qnas_por_ente[reg["ente"]] = set(reg["qnas"].keys()), over regs in order
RECURSIVE QnasPorEnte(_, _)
QnasPorEnte(regs, d) ==
    IF regs = <<>> THEN d
    ELSE QnasPorEnte(Tail(regs), DictPut(d, Head(regs).ente, Head(regs).qnas))

\* The pairs with j starting at i instead of i + 1.
ParesConCruceReflexivo(qpe) ==
    {p \in (1..Len(qpe)) \X (1..Len(qpe)) :
        p[1] <= p[2] /\ (qpe[p[1]].v \cap qpe[p[2]].v) # {}}

\* for i in range(len(entes_list)): for j in range(i + 1, len(entes_list)):
\* the pairs whose intersection is not empty
ParesConCruce(qpe) ==
    {p \in (1..Len(qpe)) \X (1..Len(qpe)) :
        p[1] < p[2] /\ (qpe[p[1]].v \cap qpe[p[2]].v) # {}}

\* qnas_con_cruce updated with the union of the two period sets.
QnasUnion(qpe) ==
    UNION {qpe[p[1]].v \cup qpe[p[2]].v : p \in ParesConCruce(qpe)}

\* qnas_con_cruce.update(interseccion)
QnasConCruce(qpe) ==
    UNION {qpe[p[1]].v \cap qpe[p[2]].v : p \in ParesConCruce(qpe)}

\* entes_con_cruce holding every entity of the rfc once some pair intersects.
EntesDelGrupo(qpe) ==
    IF ParesConCruce(qpe) = {} THEN {} ELSE DictKeys(qpe)

\* entes_con_cruce.update([e1, e2])
EntesConCruce(qpe) ==
    UNION {{qpe[p[1]].k, qpe[p[2]].k} : p \in ParesConCruce(qpe)}

\* The cruces of one rfc: none, or one dict.
CrucesDeRfc(rfc, regs) ==
    IF Len(regs) < 2 THEN <<>>
    ELSE LET qpe == QnasPorEnte(regs, <<>>)
         IN IF QnasConCruce(qpe) = {} THEN <<>>
            ELSE << [rfc        |-> rfc,
                     entes      |-> Sorted(EntesConCruce(qpe)),
                     qnas_cruce |-> Sorted(QnasConCruce(qpe)),
                     registros  |-> regs,
                     estado     |-> SinValoracion] >>

RECURSIVE CrucesDe(_, _)
CrucesDe(rfcs, registros) ==
    IF rfcs = <<>> THEN <<>>
    ELSE CrucesDeRfc(Head(rfcs), RegsDe(registros, Head(rfcs)))
         \o CrucesDe(Tail(rfcs), registros)

\* DatabaseManager.obtener_cruces_reales()
ObtenerCrucesReales(tabla) ==
    LET registros == SelectRegistros(tabla)
    IN CrucesDe(RfcsEnOrden(registros, <<>>), registros)

Rango(seq) == {seq[i] : i \in 1..Len(seq)}

\* The orders in which the table may hold its rows (the order of insertion).
OrdenesDe(tabla) ==
    LET S == BagToSet(tabla)
        n == Cardinality(S)
    IN {o \in [1..n -> S] : \A i, j \in 1..n : o[i] = o[j] => i = j}

\* The SELECT without its ORDER BY: the rows in the order the table holds them.
SinOrderBy(filas) == filas

\* ORDER BY rfc, ente over the rows in the order the table holds them.
RECURSIVE OrderByRfcEnte(_)
OrderByRfcEnte(filas) ==
    IF Len(filas) = 0 THEN <<>>
    ELSE LET antes == OrderByRfcEnte(SubSeq(filas, 1, Len(filas) - 1))
             f == filas[Len(filas)]
             k == Cardinality({i \in 1..Len(antes) : ~FilaMenor(f, antes[i])})
         IN SubSeq(antes, 1, k) \o <<f>> \o SubSeq(antes, k + 1, Len(antes))

\* obtener_cruces_reales() over a table that holds its rows in the order filas.
ObtenerCrucesRealesEn(filas) ==
    LET ordenadas == OrderByRfcEnte(filas)
        registros == [i \in 1..Len(ordenadas) |->
                         [rfc |-> ordenadas[i].rfc, ente |-> ordenadas[i].ente,
                          qnas |-> ordenadas[i].qnas]]
    IN CrucesDe(RfcsEnOrden(registros, <<>>), registros)

(***************************************************************************)
(* data_processor.py: _cruces_quincenales.  A record holds in qnas the      *)
(* periods whose value is active, as the extraction leaves them.           *)
(***************************************************************************)
\* qna_map[qna]: the records of the rfc active in qna, in order.
QnaMap(registros, qna) == SelectSeq(registros, LAMBDA reg : qna \in reg.qnas)

\* entes_en_qna = {r["ente"] for r in regs_activos}
EntesEnQna(registros, qna) == {reg.ente : reg \in Rango(QnaMap(registros, qna))}

\* qnas_con_cruce: the periods of qna_map with more than one ente.
QnasConCruceQuincenal(registros) ==
    {qna \in UNION {reg.qnas : reg \in Rango(registros)} :
        Cardinality(EntesEnQna(registros, qna)) > 1}

\* Every ente of the records of the rfc.
EntesDeLosRegistros(registros) == {reg.ente : reg \in Rango(registros)}

\* entes_involucrados.update(entes_en_qna) for each period kept.
EntesInvolucrados(registros) ==
    UNION {EntesEnQna(registros, qna) : qna \in QnasConCruceQuincenal(registros)}

\* The hallazgos of one rfc: none, or one dict.
HallazgosDeRfc(rfc, registros) ==
    IF Len(registros) < 2 THEN <<>>
    ELSE IF QnasConCruceQuincenal(registros) = {} THEN <<>>
    ELSE << [rfc        |-> rfc,
             entes      |-> Sorted(EntesInvolucrados(registros)),
             qnas_cruce |-> Sorted(QnasConCruceQuincenal(registros)),
             registros  |-> registros,
             estado     |-> SinValoracion] >>

RECURSIVE HallazgosDe(_, _)
HallazgosDe(rfcs, registros) ==
    IF rfcs = <<>> THEN <<>>
    ELSE HallazgosDeRfc(Head(rfcs), RegsDe(registros, Head(rfcs)))
         \o HallazgosDe(Tail(rfcs), registros)

\* DataProcessor._cruces_quincenales(entes_rfc), entes_rfc holding the
\* records read, in the order read, under their rfc.
CrucesQuincenales(registros) ==
    HallazgosDe(RfcsEnOrden(registros, <<>>), registros)

(***************************************************************************)
(* app.py: _filtrar_duplicados_reales.                                     *)
(***************************************************************************)
ParesCruceReal(qpe) ==
    {p \in (1..Len(qpe)) \X (1..Len(qpe)) :
        p[1] < p[2] /\ (qpe[p[1]].v \cap qpe[p[2]].v) # {}}

EntesCruceReal(r) ==
    LET qpe == QnasPorEnte(r.registros, <<>>)
    IN UNION {{qpe[p[1]].k, qpe[p[2]].k} : p \in ParesCruceReal(qpe)}

\* _filtrar_duplicados_reales(resultados): the results kept, each with its
\* entes_cruce_real.
FiltrarDuplicadosReales(resultados) ==
    LET conCruce == SelectSeq(resultados, LAMBDA r : EntesCruceReal(r) # {})
    IN [i \in 1..Len(conCruce) |->
           [rfc |-> conCruce[i].rfc, entes |-> conCruce[i].entes,
            qnas_cruce |-> conCruce[i].qnas_cruce,
            registros |-> conCruce[i].registros,
            estado |-> conCruce[i].estado,
            entes_cruce_real |-> EntesCruceReal(conCruce[i])]]

(***************************************************************************)
(* Access filter: _allowed_all and the permission tests of app.py.         *)
(***************************************************************************)
\* _allowed_all without the test (tiene_entes and tiene_munis).
AllowedAllSinAmbos(entes_usuario) ==
    LET toks == {SanitizeText(entes_usuario[i]) : i \in 1..Len(entes_usuario)}
        tiene_todos == \E t \in toks : t = "TODOS"
        tiene_entes == \E t \in toks : Contains(t, "TODOS") /\ Contains(t, "ENTE")
        tiene_munis == \E t \in toks : Contains(t, "TODOS") /\ Contains(t, "MUNICIP")
    IN IF tiene_todos THEN "ALL"
       ELSE IF tiene_entes THEN "ENTES"
       ELSE IF tiene_munis THEN "MUNICIPIOS"
       ELSE None

\* _allowed_all without the test s == "TODOS".
AllowedAllSinTodos(entes_usuario) ==
    LET toks == {SanitizeText(entes_usuario[i]) : i \in 1..Len(entes_usuario)}
        tiene_entes == \E t \in toks : Contains(t, "TODOS") /\ Contains(t, "ENTE")
        tiene_munis == \E t \in toks : Contains(t, "TODOS") /\ Contains(t, "MUNICIP")
    IN IF tiene_entes /\ tiene_munis THEN "ALL"
       ELSE IF tiene_entes THEN "ENTES"
       ELSE IF tiene_munis THEN "MUNICIPIOS"
       ELSE None

\* _allowed_all(entes_usuario): "ALL", "ENTES", "MUNICIPIOS" or None
AllowedAll(entes_usuario) ==
    LET toks == {SanitizeText(entes_usuario[i]) : i \in 1..Len(entes_usuario)}
        tiene_todos == \E t \in toks : t = "TODOS"
        tiene_entes == \E t \in toks : Contains(t, "TODOS") /\ Contains(t, "ENTE")
        tiene_munis == \E t \in toks : Contains(t, "TODOS") /\ Contains(t, "MUNICIP")
    IN IF tiene_todos \/ (tiene_entes /\ tiene_munis) THEN "ALL"
       ELSE IF tiene_entes THEN "ENTES"
       ELSE IF tiene_munis THEN "MUNICIPIOS"
       ELSE None

\* _entes_cache().get(_sanitize_text(e), {}).get("tipo", defecto)
TipoEnte(e, defecto) ==
    LET k == SanitizeText(e)
    IN IF k \in DictKeys(EntesCache) THEN DictGet(EntesCache, k).tipo ELSE defecto

\* The first loop with "ENTES" letting through every entity that is not a
\* MUNICIPIO.
PermitidoCruceLaxo(modo_permiso, entes_usuario, e) ==
    LET tipo_ente == TipoEnte(e, "")
    IN IF modo_permiso = "ALL" THEN TRUE
       ELSE IF modo_permiso = "ENTES" THEN tipo_ente # "MUNICIPIO"
       ELSE IF modo_permiso = "MUNICIPIO" THEN tipo_ente = "MUNICIPIO"
       ELSE \E i \in 1..Len(entes_usuario) : EnteMatch(entes_usuario[i], {e})

\* reporte_por_ente, first loop: is the entity e of a cross-reference shown
PermitidoCruce(modo_permiso, entes_usuario, e) ==
    LET tipo_ente == TipoEnte(e, "")
    IN IF modo_permiso = "ALL" THEN TRUE
       ELSE IF modo_permiso = "ENTES" THEN tipo_ente = "ENTE"
       ELSE IF modo_permiso = "MUNICIPIO" THEN tipo_ente = "MUNICIPIO"
       ELSE \E i \in 1..Len(entes_usuario) : EnteMatch(entes_usuario[i], {e})

\* reporte_por_ente, catalog loop: is the catalog entity listed
PermitidoCatalogo(modo_permiso, entes_usuario, clave) ==
    LET tipo_ente == TipoEnte(clave, "ENTE")
    IN IF modo_permiso = "ALL" THEN TRUE
       ELSE IF modo_permiso = "ENTES" THEN tipo_ente = "ENTE"
       ELSE IF modo_permiso = "MUNICIPIOS" THEN tipo_ente = "MUNICIPIO"
       ELSE \E i \in 1..Len(entes_usuario) : EnteMatch(entes_usuario[i], {clave})

\* The rows of solventaciones of a pair.
FilasSolv(tabla, rfc, ente) == {f \in BagToSet(tabla) : f.rfc = rfc /\ f.ente = ente}

\* DatabaseManager.get_estado_rfc_ente(rfc, ente_clave):
\* ... ORDER BY actualizado DESC LIMIT 1
GetEstadoRfcEnte(rfc, ente_clave) ==
    IF rfc = None \/ rfc = "" \/ ente_clave = None \/ ente_clave = "" THEN None
    ELSE LET filas == FilasSolv(solventaciones, rfc, ente_clave)
         IN IF filas = {} THEN None
            ELSE (CHOOSE f \in filas : \A g \in filas : g.actualizado <= f.actualizado).estado

(***************************************************************************)
(* app.py: reporte_por_ente (/resultados).                                 *)
(***************************************************************************)
ResultadosFiltrados ==
    FiltrarDuplicadosReales(ObtenerCrucesReales(registros_laborales))

\* for en in r.get("entes", []): if _sanitize_text(en) != _sanitize_text(e):
\*     agrupado[ente_nombre][rfc]["entes"].add(_ente_sigla(en))
OtrosEntes(r, e) ==
    {EnteSigla(en) : en \in {x \in Rango(r.entes) : SanitizeText(x) # SanitizeText(e)}}

\* mapa_solvs.get(clave, {}).get("estado"), mapa_solvs being
\* get_solventaciones_por_rfc(rfc)
EstadoEnMapa(rfc, clave) ==
    LET filas == FilasSolv(solventaciones, rfc, clave)
    IN IF filas = {} THEN None ELSE (CHOOSE f \in filas : TRUE).estado

\* estado_entes[_ente_sigla(en)] = est or estado_default, for the same en
EstadoEntes(r, e) ==
    {[ente   |-> EnteSigla(en),
      estado |-> Or(EstadoEnMapa(r.rfc, NormalizarEnteClave(en)), r.estado)]
        : en \in {x \in Rango(r.entes) : SanitizeText(x) # SanitizeText(e)}}

\* The (result, entity) pairs that pass the permission test of the first loop.
Mostrados(resultados, modo_permiso, entes_usuario) ==
    UNION {{<<i, e>> : e \in {x \in resultados[i].entes_cruce_real :
                                  PermitidoCruce(modo_permiso, entes_usuario, x)}}
           : i \in 1..Len(resultados)}

\* agrupado after the first loop: ente_nombre -> the entries of its rfcs.
\* claves holds the record labels shown under the name.
EntradaAgrupado(r, claves) ==
    [rfc    |-> r.rfc,
     claves |-> claves,
     entes  |-> UNION {OtrosEntes(r, e) : e \in claves},
     estado_entes |-> UNION {EstadoEntes(r, e) : e \in claves}]

\* The pairs of m with their ente_nombre.
ConNombre(m) == {[i |-> p[1], e |-> p[2], n |-> EnteDisplay(p[2])] : p \in m}

AgrupadoDe(resultados, mn) ==
    [n \in {p.n : p \in mn} |->
        {EntradaAgrupado(resultados[i], {p.e : p \in {q \in mn : q.i = i /\ q.n = n}})
           : i \in {p.i : p \in {q \in mn : q.n = n}}}]

AgrupadoCruces(resultados, modo_permiso, entes_usuario) ==
    AgrupadoDe(resultados, ConNombre(Mostrados(resultados, modo_permiso, entes_usuario)))

\* todos_entes + todos_municipios
TodosEntidades == ListarEntes \o ListarMunicipios

\* DatabaseManager.contar_trabajadores_por_ente():
\* SELECT ente, COUNT(DISTINCT rfc) ... GROUP BY ente
ContarTrabajadoresDe(filas) ==
    [ente \in {f.ente : f \in filas} |->
        Cardinality({f.rfc : f \in {g \in filas : g.ente = ente}})]

ContarTrabajadoresPorEnte == ContarTrabajadoresDe(BagToSet(registros_laborales))

\* trabajadores_por_ente[_ente_display(clave)] = total, the groups in the
\* order of their ente.
RECURSIVE TrabajadoresPorEnteDe(_, _, _)
TrabajadoresPorEnteDe(conteo, claves, d) ==
    IF claves = <<>> THEN d
    ELSE TrabajadoresPorEnteDe(conteo, Tail(claves),
             DictPut(d, EnteDisplay(Head(claves)), conteo[Head(claves)]))

TrabajadoresDelConteo(conteo) ==
    TrabajadoresPorEnteDe(conteo, Sorted(DOMAIN conteo), <<>>)

TrabajadoresPorEnte == TrabajadoresDelConteo(ContarTrabajadoresPorEnte)

\* trabajadores_por_ente.get(ente_nombre, 0)
DictGetO(d, k, defecto) ==
    IF k \in DictKeys(d) THEN DictGet(d, k) ELSE defecto

TotalTrabajadores(ente_nombre) == DictGetO(TrabajadoresPorEnte, ente_nombre, 0)

\* len(agrupado.get(ente_nombre, {}))
TotalDuplicados(agrupado, ente_nombre) ==
    IF ente_nombre \in DOMAIN agrupado THEN Cardinality(agrupado[ente_nombre]) ELSE 0

\* The catalog loop: entes_info[ente_nombre] = {...} for each permitted entity.
RECURSIVE EntesInfo(_, _, _, _, _)
EntesInfo(filas, modo_permiso, entes_usuario, agrupado, info) ==
    IF filas = <<>> THEN info
    ELSE LET ente == Head(filas)
             ente_nombre == Or(ente.siglas, ente.nombre)
         IN EntesInfo(Tail(filas), modo_permiso, entes_usuario, agrupado,
                IF PermitidoCatalogo(modo_permiso, entes_usuario, ente.clave)
                THEN DictPut(info, ente_nombre,
                             [num |-> ente.num, siglas |-> ente.siglas,
                              nombre_completo |-> ente.nombre,
                              total |-> TotalTrabajadores(ente_nombre),
                              duplicados |-> TotalDuplicados(agrupado, ente_nombre),
                              clave |-> ente.clave,
                              tipo |-> TipoEnte(ente.clave, "ENTE")])
                ELSE info)

\* orden_por_num(item)
OrdenPorNum(item) ==
    LET partes == SplitPor(RStripPuntos(Strip(item.v.num)), ".", "")
        enteros == [i \in 1..Len(partes) |-> ParteEnteraCentinela(partes[i])]
    IN enteros \o [i \in 1..(5 - Len(enteros)) |-> 0]

\* sorted(entes_info.items(), key=orden_por_num): stable.
RECURSIVE SortOrdenPorNum(_)
SortOrdenPorNum(items) ==
    IF Len(items) = 0 THEN <<>>
    ELSE LET antes == SortOrdenPorNum(SubSeq(items, 1, Len(items) - 1))
             f == items[Len(items)]
             k == Cardinality({i \in 1..Len(antes) :
                     ~TuplaMenor(OrdenPorNum(f), OrdenPorNum(antes[i]))})
         IN SubSeq(antes, 1, k) \o <<f>> \o SubSeq(antes, k + 1, Len(antes))

\* The response of /resultados for the tokens of the session.
RespuestaResultados(modo_permiso, cruces, info) ==
    [ruta         |-> "resultados",
     modo_permiso |-> modo_permiso,
     \* if ente_nombre not in agrupado: agrupado[ente_nombre] = {}
     resultados   |-> [n \in DOMAIN cruces \cup DictKeys(info) |->
                          IF n \in DOMAIN cruces THEN cruces[n] ELSE {}],
     entes_info   |-> SortOrdenPorNum(info)]

ReporteDeCruces(modo_permiso, entes_usuario, cruces) ==
    RespuestaResultados(modo_permiso, cruces,
        EntesInfo(TodosEntidades, modo_permiso, entes_usuario, cruces, <<>>))

ReporteConModo(modo_permiso, entes_usuario) ==
    ReporteDeCruces(modo_permiso, entes_usuario,
        AgrupadoCruces(ResultadosFiltrados, modo_permiso, entes_usuario))

ReportePorEnteSalida(entes_usuario) ==
    ReporteConModo(AllowedAll(entes_usuario), entes_usuario)

(***************************************************************************)
(* app.py: _construir_filas_export and the two exports.                    *)
(***************************************************************************)
CicloCompleto == 24

\* s.replace(viejo, "")
RECURSIVE Quitar(_, _)
Quitar(s, viejo) ==
    IF Len(s) < Len(viejo) THEN s
    ELSE IF SubSeq(s, 1, Len(viejo)) = viejo
         THEN Quitar(SubSeq(s, Len(viejo) + 1, Len(s)), viejo)
         ELSE Char(s, 1) \o Quitar(SubSeq(s, 2, Len(s)), viejo)

\* qnum = qna.replace("QNA", "").strip(); the set of int(qnum) that are digits
NumerosDeQnas(qs) ==
    {ToInt(Strip(Quitar(q, "QNA"))) : q \in {x \in qs : IsDigit(Strip(Quitar(x, "QNA")))}}

RECURSIVE SortedInts(_)
SortedInts(S) ==
    IF S = {} THEN <<>>
    ELSE LET m == CHOOSE x \in S : \A y \in S : x <= y
         IN <<m>> \o SortedInts(S \ {m})

\* ", ".join(f"QNA{q}" for q in sorted(...))
RECURSIVE JoinQnas(_)
JoinQnas(nums) ==
    IF nums = <<>> THEN ""
    ELSE IF Len(nums) = 1 THEN "QNA" \o ToString(Head(nums))
    ELSE "QNA" \o ToString(Head(nums)) \o ", " \o JoinQnas(Tail(nums))

EtiquetaQuincenas(qnas_set) ==
    IF Cardinality(qnas_set) >= CicloCompleto THEN "Activo en Todo el Ejercicio"
    ELSE IF qnas_set # {} THEN JoinQnas(SortedInts(qnas_set))
    ELSE "N/A"

\* The other entities of the result whose periods intersect those of reg.
EntesIncompatibles(r, reg) ==
    LET qpe == QnasPorEnte(r.registros, <<>>)
        actual == IF reg.ente \in DictKeys(qpe) THEN DictGet(qpe, reg.ente) ELSE {}
    IN {qpe[i].k : i \in {j \in 1..Len(qpe) :
            /\ SanitizeText(qpe[j].k) # SanitizeText(reg.ente)
            /\ (actual \cap qpe[j].v) # {}}}

\* Every period of reg, shared or not.
QnasDelRegistro(r, reg) ==
    LET qpe == QnasPorEnte(r.registros, <<>>)
    IN IF reg.ente \in DictKeys(qpe) THEN DictGet(qpe, reg.ente) ELSE {}

\* The periods of reg that some other entity of the result shares.
QnasIncompatibles(r, reg) ==
    LET qpe == QnasPorEnte(r.registros, <<>>)
        actual == IF reg.ente \in DictKeys(qpe) THEN DictGet(qpe, reg.ente) ELSE {}
    IN UNION {actual \cap qpe[i].v : i \in {j \in 1..Len(qpe) :
                  SanitizeText(qpe[j].k) # SanitizeText(reg.ente)}}

\* Python str.lower() over the letters of the model.
EnMinuscula ==
    LET min == Minusculas \o Acentuadas
        may == Mayusculas \o AcentuadasMayusculas
    IN [c \in {Char(may, i) : i \in 1..Len(may)} |->
           Char(min, CHOOSE i \in 1..Len(may) : Char(may, i) = c)]

RECURSIVE Lower(_)
Lower(s) ==
    IF Len(s) = 0 THEN ""
    ELSE (IF Char(s, 1) \in DOMAIN EnMinuscula THEN EnMinuscula[Char(s, 1)]
          ELSE Char(s, 1))
         \o Lower(SubSeq(s, 2, Len(s)))

\* _estatus_label(v)
EstatusLabel(v) ==
    LET t == Lower(Strip(Or(v, "")))
    IN IF t = "" THEN SinValoracion
       ELSE IF Contains(t, "no") THEN "No Solventado"
       ELSE IF Contains(t, "solvent") THEN "Solventado"
       ELSE SinValoracion

\* ", ".join(seq)
RECURSIVE JoinStr(_)
JoinStr(seq) ==
    IF seq = <<>> THEN ""
    ELSE IF Len(seq) = 1 THEN Head(seq)
    ELSE Head(seq) \o ", " \o JoinStr(Tail(seq))

\* agregados: one item per key (rfc, _sanitize_text(ente_origen)), in the
\* order the keys are first met.
Agregados(resultados) ==
    LET regs == UNION {{<<i, j>> : j \in 1..Len(resultados[i].registros)}
                       : i \in 1..Len(resultados)}
        reg(p) == resultados[p[1]].registros[p[2]]
        clave(p) == <<resultados[p[1]].rfc, SanitizeText(reg(p).ente)>>
        antes(p, q) == p[1] < q[1] \/ (p[1] = q[1] /\ p[2] < q[2])
        primero(k) == CHOOSE p \in regs :
                          /\ clave(p) = k
                          /\ \A q \in regs : clave(q) = k => ~antes(q, p)
        claves == {clave(p) : p \in regs}
        enOrden == [n \in 1..Cardinality(claves) |->
                       CHOOSE k \in claves :
                           Cardinality({k2 \in claves :
                               antes(primero(k2), primero(k))}) = n - 1]
    IN [n \in 1..Cardinality(claves) |->
           LET k == enOrden[n]
               mismos == {p \in regs : clave(p) = k}
           IN [RFC |-> k[1],
               ente_origen_raw |-> reg(primero(k)).ente,
               Ente_Origen |-> EnteDisplay(reg(primero(k)).ente),
               entes_incomp_set |->
                   UNION {EntesIncompatibles(resultados[p[1]], reg(p)) : p \in mismos},
               qnas_set |-> NumerosDeQnas(
                   UNION {QnasIncompatibles(resultados[p[1]], reg(p)) : p \in mismos}),
               estado_base |-> EstatusLabel(resultados[primero(k)[1]].estado),
               solventacion |-> ""]]

\* SELECT rfc, ente, comentario FROM solventaciones; mapa_coment
MapaComent(tabla) ==
    {[rfc |-> f.rfc, ente |-> f.ente, comentario |-> f.comentario]
        : f \in BagToSet(tabla)}

\* mapa_coment.get((rfc, ente_clave))
ComentarioDe(mapa_coment, rfc, ente_clave) ==
    LET cs == {c \in mapa_coment : c.rfc = rfc /\ c.ente = ente_clave}
    IN IF cs = {} THEN None ELSE (CHOOSE c \in cs : TRUE).comentario

\* The row built from an item of agregados: the state is read from the table
\* as it is now, the comment from mapa_coment.
FilaConClave(item, mapa_coment, ente_clave) ==
    [RFC |-> item.RFC,
     ente_origen_raw |-> item.ente_origen_raw,
     Ente_Origen |-> item.Ente_Origen,
     Entes_Incompatibilidad |->
         Or(JoinStr(Sorted({EnteSigla(e) : e \in item.entes_incomp_set})),
            "Sin otros entes"),
     Quincenas |-> EtiquetaQuincenas(item.qnas_set),
     \* est_ente or item["estado_base"]
     Estatus |-> Or(GetEstadoRfcEnte(item.RFC, ente_clave), item.estado_base),
     \* comentario_real or item["solventacion"]
     Solventacion |-> Or(ComentarioDe(mapa_coment, item.RFC, ente_clave),
                         item.solventacion)]

FilaDeItem(item, mapa_coment) ==
    FilaConClave(item, mapa_coment, NormalizarEnteClave(item.ente_origen_raw))

\* _construir_filas_export(resultados): the list of rows.
FilasDeItems(agregados, mapa_coment) ==
    [n \in 1..Len(agregados) |-> FilaDeItem(agregados[n], mapa_coment)]

ConstruirFilasExport(resultados) ==
    FilasDeItems(Agregados(resultados), MapaComent(solventaciones))

\* The export keeping the rows whose Quincenas is "N/A".
FilasSinFiltrar == ConstruirFilasExport(ResultadosFiltrados)

\* filas = [f for f in filas if f.get("Quincenas") != "N/A"]
FilasExportables ==
    SelectSeq(ConstruirFilasExport(ResultadosFiltrados),
              LAMBDA f : f.Quincenas # "N/A")

\* /exportar_general
RespuestaExportarGeneral(filas) ==
    IF filas = <<>>
    THEN [ruta |-> "exportar_general", status |-> 404, datos |-> <<>>]
    ELSE [ruta |-> "exportar_general", status |-> 200, datos |-> filas]

ExportarGeneralSalida == RespuestaExportarGeneral(FilasExportables)

\* /exportar_por_ente?ente=ente_sel
RespuestaExportarPorEnte(sel, filas) ==
    IF sel = ""
    THEN [ruta |-> "exportar_por_ente", status |-> 400, datos |-> <<>>]
    ELSE IF filas = <<>>
    THEN [ruta |-> "exportar_por_ente", status |-> 404, datos |-> <<>>]
    ELSE [ruta |-> "exportar_por_ente", status |-> 200, ente |-> sel,
          datos |-> filas]

\* filas = [f for f in filas if _ente_match(ente_sel, [f.get("Ente_Origen")])]
FilasDelEnte(filas, sel) ==
    SelectSeq(filas, LAMBDA f : EnteMatch(sel, {f.Ente_Origen}))

ExportarPorEnteSalida(ente_sel) ==
    RespuestaExportarPorEnte(Strip(ente_sel),
                             FilasDelEnte(FilasExportables, Strip(ente_sel)))

(***************************************************************************)
(* app.py: resultados_por_rfc (/resultados/<rfc>).                         *)
(***************************************************************************)
\* DatabaseManager.obtener_resultados_por_rfc: WHERE UPPER(rfc) = UPPER(?)
ObtenerResultadosPorRfc(rfc) ==
    LET filas == SelectSeq(OrdenarFilas(registros_laborales),
                           LAMBDA f : SqlUpper(f.rfc) = SqlUpper(rfc))
    IN [rfc |-> rfc,
        entes |-> Sorted({filas[i].ente : i \in 1..Len(filas)}),
        registros |-> [i \in 1..Len(filas) |->
                          [ente |-> filas[i].ente, qnas |-> filas[i].qnas]],
        estado |-> SinValoracion,
        solventacion |-> ""]

\* DatabaseManager.get_solventaciones_por_rfc(rfc): ente -> {estado, comentario}
GetSolventacionesPorRfc(rfc) ==
    LET filas == {f \in BagToSet(solventaciones) : f.rfc = rfc}
    IN [e \in {f.ente : f \in filas} |->
           LET f == CHOOSE x \in filas : x.ente = e
           IN [estado |-> f.estado, comentario |-> f.comentario]]

\* The loop over info["registros"]: estado_ente and comentario_ente of the
\* records whose resolved key has a row (None: the key is not set).
RegistrosConEstado(registros, mapa_solvs) ==
    [i \in 1..Len(registros) |->
        LET ente_clave == NormalizarEnteClave(registros[i].ente)
        IN IF ente_clave \in DOMAIN mapa_solvs
           THEN [ente |-> registros[i].ente, qnas |-> registros[i].qnas,
                 estado_ente |-> mapa_solvs[ente_clave].estado,
                 comentario_ente |-> mapa_solvs[ente_clave].comentario]
           ELSE [ente |-> registros[i].ente, qnas |-> registros[i].qnas,
                 estado_ente |-> None, comentario_ente |-> None]]

\* estados_regs = {reg.get("estado_ente") or info.get("estado") ...}; one
\* value: that value; several: "Mixto"
EstadoAgregado(registros, estado) ==
    LET estados_regs == {Or(registros[i].estado_ente, estado) : i \in 1..Len(registros)}
                        \ {"", None}
    IN IF Cardinality(estados_regs) = 1 THEN CHOOSE e \in estados_regs : TRUE
       ELSE IF Cardinality(estados_regs) > 1 THEN "Mixto"
       ELSE estado

\* info["registros"] and info["estado"] replaced by those of the loop.
InfoConEstado(info, registros) ==
    [info EXCEPT !.registros = registros,
                 !.estado = EstadoAgregado(registros, info.estado)]

DetalleRfc(info, mapa_solvs) ==
    IF info.registros = <<>>
    THEN [ruta |-> "resultados_por_rfc", plantilla |-> "empty.html"]
    ELSE IF DOMAIN mapa_solvs = {}
    THEN [ruta |-> "resultados_por_rfc", plantilla |-> "detalle_rfc.html",
          info |-> info]
    ELSE [ruta |-> "resultados_por_rfc", plantilla |-> "detalle_rfc.html",
          info |-> InfoConEstado(info, RegistrosConEstado(info.registros, mapa_solvs))]

ResultadosPorRfcSalida(rfc) ==
    DetalleRfc(ObtenerResultadosPorRfc(rfc), GetSolventacionesPorRfc(rfc))

(***************************************************************************)
(* Dispositions: the table solventaciones and its handlers.                *)
(***************************************************************************)
\* if not ente: ente = "GENERAL"; ente = self.normalizar_ente_clave(ente) or ente
ClaveSolventacion(ente) ==
    LET e == Or(ente, "GENERAL")
    IN Or(NormalizarEnteClave(e), e)

\* The row actualizar_solventacion writes.
FilaSolventacion(rfc, estado, comentario, catalogo, otro_texto, ente, ahora) ==
    [rfc |-> rfc, ente |-> ClaveSolventacion(ente),
     estado |-> Or(estado, SinValoracion), comentario |-> comentario,
     catalogo |-> catalogo, otro_texto |-> otro_texto, actualizado |-> ahora]

\* The same INSERT without UNIQUE(rfc, ente) and its ON CONFLICT clause.
SolventacionSinConflicto(tabla, fila) == tabla (+) SetToBag({fila})

\* INSERT INTO solventaciones ... ON CONFLICT(rfc, ente) DO UPDATE SET ...
SolventacionOnConflictDoUpdate(tabla, fila) ==
    LET viejas == FilasSolv(tabla, fila.rfc, fila.ente)
    IN [f \in BagToSet(tabla) \ viejas |-> CopiesIn(f, tabla)] (+) SetToBag({fila})

\* DatabaseManager.actualizar_solventacion(rfc, estado, comentario, catalogo,
\* otro_texto, ente): the table after the call.
ActualizarSolventacion(rfc, estado, comentario, catalogo, otro_texto, ente) ==
    SolventacionOnConflictDoUpdate(
        solventaciones,
        FilaSolventacion(rfc, estado, comentario, catalogo, otro_texto, ente, reloj))

\* The fields of the review forms the model submits: estado, valoracion,
\* catalogo, otro_texto.
Formularios ==
    {[estado |-> "Solventado", comentario |-> "c1", catalogo |-> "A1",
      otro_texto |-> None],
     [estado |-> "No Solventado", comentario |-> "c2", catalogo |-> "Otro",
      otro_texto |-> "t2"],
     [estado |-> None, comentario |-> "", catalogo |-> None, otro_texto |-> None]}

\* The values of the argument and form field ente: absent, an acronym, a key
\* and a label the catalog does not know.
EntesRevision == {None, "SEGOB", "MUN_1", "X_9"}

\* POST /actualizar_estado
ActualizarEstado(rfc, ente, form) ==
    /\ ~carga.activa
    /\ session.autenticado
    /\ \/ FilasSolv(solventaciones, rfc, ClaveSolventacion(ente)) # {}
       \/ BagCardinality(solventaciones) < MaxSolventaciones
    /\ solventaciones' = ActualizarSolventacion(rfc, form.estado, form.comentario,
                                                form.catalogo, form.otro_texto, ente)
    /\ respuesta' = [ruta |-> "actualizar_estado",
                     mensaje |-> "Registro actualizado (1 filas)",
                     estatus |-> form.estado,
                     peticion |-> [rfc |-> rfc, ente |-> ente, form |-> form]]
    /\ UNCHANGED <<peticion, exportacion,
                   escritores, data_processor, entes, municipios, entes_cache,
                   registros_laborales, reloj, carga, session>>

\* POST /solventacion/<rfc>?ente=ente_sel; the form carries no field ente.
SolventacionPost(rfc, ente_sel, form) ==
    /\ ~carga.activa
    /\ session.autenticado
    /\ \/ FilasSolv(solventaciones, rfc, ClaveSolventacion(ente_sel)) # {}
       \/ BagCardinality(solventaciones) < MaxSolventaciones
    /\ solventaciones' = ActualizarSolventacion(rfc, form.estado, form.comentario,
                                                form.catalogo, form.otro_texto,
                                                ente_sel)
    /\ respuesta' = [ruta |-> "solventacion_detalle", metodo |-> "POST",
                     redirect |-> "resultados_por_rfc",
                     peticion |-> [rfc |-> rfc, ente |-> ente_sel, form |-> form]]
    /\ UNCHANGED <<peticion, exportacion,
                   escritores, data_processor, entes, municipios, entes_cache,
                   registros_laborales, reloj, carga, session>>

\* GET /solventacion/<rfc>?ente=ente_sel: the previous values shown.
SolventacionDetalleSalida(rfc, ente_sel) ==
    LET info == ObtenerResultadosPorRfc(rfc)
        clave == NormalizarEnteClave(Or(ente_sel, "GENERAL"))
        \* WHERE rfc=? AND ente=?; no row when the parameter is NULL
        filas == IF clave = None THEN {} ELSE FilasSolv(solventaciones, rfc, clave)
    IN IF info.registros = <<>>
       THEN [ruta |-> "solventacion_detalle", metodo |-> "GET",
             plantilla |-> "empty.html"]
       ELSE IF filas = {}
       THEN [ruta |-> "solventacion_detalle", metodo |-> "GET",
             plantilla |-> "solventacion.html", rfc |-> rfc, ente_sel |-> ente_sel,
             estado_prev |-> info.estado, valoracion_prev |-> info.solventacion,
             catalogo_prev |-> "", otro_texto_prev |-> ""]
       ELSE LET row == CHOOSE f \in filas : TRUE
            IN [ruta |-> "solventacion_detalle", metodo |-> "GET",
                plantilla |-> "solventacion.html", rfc |-> rfc,
                ente_sel |-> ente_sel,
                estado_prev |-> row.estado, valoracion_prev |-> row.comentario,
                catalogo_prev |-> row.catalogo, otro_texto_prev |-> row.otro_texto]

SolventacionGet(rfc, ente_sel) ==
    /\ ~carga.activa
    /\ session.autenticado
    /\ respuesta' = SolventacionDetalleSalida(rfc, ente_sel)
    /\ UNCHANGED <<peticion, exportacion,
                   solventaciones, escritores, data_processor,
                   entes, municipios, entes_cache, registros_laborales, reloj,
                   carga, session>>

\* _construir_filas_export: est_ente of a row whose origin label is ente_raw
\* ente_clave = db_manager.normalizar_ente_clave(item["_ente_origen_raw"])
\* est_ente = db_manager.get_estado_rfc_ente(item["RFC"], ente_clave)
ConsultarEstado(rfc, ente_raw) ==
    /\ ~carga.activa
    /\ session.autenticado
    /\ respuesta' = [ruta |-> "get_estado_rfc_ente", rfc |-> rfc,
                     ente |-> ente_raw,
                     estado |-> GetEstadoRfcEnte(rfc, NormalizarEnteClave(ente_raw))]
    /\ UNCHANGED <<peticion, exportacion,
                   solventaciones, escritores, data_processor,
                   entes, municipios, entes_cache, registros_laborales, reloj,
                   carga, session>>

(***************************************************************************)
(* Users and login.                                                        *)
(***************************************************************************)
\* s.split(",")
RECURSIVE Split(_, _)
Split(s, actual) ==
    IF Len(s) = 0 THEN <<actual>>
    ELSE IF Char(s, 1) = "," THEN <<actual>> \o Split(SubSeq(s, 2, Len(s)), "")
    ELSE Split(SubSeq(s, 2, Len(s)), actual \o Char(s, 1))

\* Rows of the table usuarios: login name and the column entes.
Usuarios ==
    {[usuario |-> "odilia", entes |-> "TODOS"],
     [usuario |-> "ana",    entes |-> "ALL"],
     [usuario |-> "ent",    entes |-> "Todos los entes"],
     [usuario |-> "mun",    entes |-> "TODOS LOS MUNICIPIOS"],
     [usuario |-> "amb",    entes |-> "TODOS LOS ENTES, TODOS LOS MUNICIPIOS"],
     [usuario |-> "seg",    entes |-> "segob"],
     [usuario |-> "acu",    entes |-> "Acuamanala"],
     [usuario |-> "x9",     entes |-> "X_9"]}

\* DatabaseManager.get_usuario: the list entes of the user
\* [e.strip().upper() for e in (row["entes"] or "").split(",") if e.strip()]
EntesDeUsuario(row) ==
    LET campos == SelectSeq(Split(Or(row.entes, ""), ""), LAMBDA e : Strip(e) # "")
    IN [i \in 1..Len(campos) |-> Upper(Strip(campos[i]))]

Superusuarios == {"odilia", "luis", "felipe"}

\* login(): the value of session["entes"]; the login names of the model are
\* in lower case, as user["usuario"].lower() makes them.
EntesDeSesion(row) ==
    LET es == EntesDeUsuario(row)
    IN IF row.usuario \in Superusuarios THEN <<"TODOS">>
       ELSE [i \in 1..Len(es) |->
               IF NormalizarEnteClave(es[i]) # None
               THEN NormalizarEnteClave(es[i]) ELSE es[i]]

SinSesion == [autenticado |-> FALSE, entes |-> <<>>]

\* POST / with valid credentials
Login(row) ==
    /\ ~carga.activa
    /\ session' = [autenticado |-> TRUE, entes |-> EntesDeSesion(row)]
    /\ respuesta' = [ruta |-> "login", redirect |-> "dashboard"]
    /\ UNCHANGED <<peticion, exportacion,
                   solventaciones, escritores, data_processor,
                   entes, municipios, entes_cache, registros_laborales, reloj, carga>>

\* /logout
Logout ==
    /\ ~carga.activa
    /\ session.autenticado
    /\ session' = SinSesion
    /\ respuesta' = [ruta |-> "logout", redirect |-> "login"]
    /\ UNCHANGED <<peticion, exportacion,
                   solventaciones, escritores, data_processor,
                   entes, municipios, entes_cache, registros_laborales, reloj, carga>>

\* before_request: any other endpoint without a session
VerificarAutenticacion ==
    /\ ~carga.activa
    /\ ~session.autenticado
    /\ respuesta' = [ruta |-> "verificar_autenticacion", redirect |-> "login"]
    /\ UNCHANGED <<peticion, exportacion,
                   solventaciones, escritores, data_processor,
                   entes, municipios, entes_cache, registros_laborales, reloj,
                   carga, session>>

\* GET /resultados
ReportePorEnte ==
    /\ ~carga.activa
    /\ session.autenticado
    /\ respuesta' = ReportePorEnteSalida(session.entes)
    /\ entes_cache' = CacheCargado
    /\ UNCHANGED <<peticion, exportacion,
                   solventaciones, escritores, data_processor,
                   entes, municipios, registros_laborales, reloj, carga, session>>

\* GET /exportar_general
ExportarGeneral ==
    /\ ~carga.activa
    /\ session.autenticado
    /\ respuesta' = ExportarGeneralSalida
    /\ entes_cache' = IF ResultadosFiltrados = <<>> THEN entes_cache ELSE CacheCargado
    /\ UNCHANGED <<peticion, exportacion,
                   solventaciones, escritores, data_processor,
                   entes, municipios, registros_laborales, reloj, carga, session>>

\* The values of the query argument ente the model requests.
EntesSeleccionables == {"SEGOB", "mun_1", "X_9"}

\* GET /exportar_por_ente?ente=...
ExportarPorEnte(ente_sel) ==
    /\ ~carga.activa
    /\ session.autenticado
    /\ respuesta' = ExportarPorEnteSalida(ente_sel)
    /\ entes_cache' = IF Strip(ente_sel) = "" \/ ResultadosFiltrados = <<>>
                      THEN entes_cache ELSE CacheCargado
    /\ UNCHANGED <<peticion, exportacion,
                   solventaciones, escritores, data_processor,
                   entes, municipios, registros_laborales, reloj, carga, session>>

\* GET /resultados/<rfc>
ResultadosPorRfc(rfc) ==
    /\ ~carga.activa
    /\ session.autenticado
    /\ respuesta' = ResultadosPorRfcSalida(rfc)
    /\ UNCHANGED <<peticion, exportacion,
                   solventaciones, escritores, data_processor,
                   entes, municipios, entes_cache, registros_laborales, reloj,
                   carga, session>>

(***************************************************************************)
(* Concurrent calls of guardar_registros_individuales.                     *)
(***************************************************************************)
Escritores == {"w1", "w2"}

EscritorFuera == [pc |-> "fuera", n |-> 0, insertados |-> 0, actualizados |-> 0]

SinEscritores == [w \in Escritores |-> EscritorFuera]

\* The records the concurrent calls carry: one pair with two values of its
\* periods, and another pair.
RegistrosConcurrentes ==
    {[rfc |-> "RFC1", ente |-> "ENTE_A", qnas |-> {"QNA1"}],
     [rfc |-> "RFC1", ente |-> "ENTE_A", qnas |-> {"QNA2"}],
     [rfc |-> "RFC1", ente |-> "MUN_1", qnas |-> {"QNA1"}]}

\* Another connection has written inside a transaction it has not committed:
\* it holds the write lock of the database file.
BloqueadaPorOtro(w) == \E v \in Escritores \ {w} : escritores[v].pc = "transaccion"

\* conn = self._connect(); insertados, actualizados = 0, 0
EscritorInicio(w) ==
    /\ escritores[w].pc \in {"fuera", "fin"}
    /\ escritores' = [escritores EXCEPT ![w] =
                         [pc |-> "bucle", n |-> 0, insertados |-> 0,
                          actualizados |-> 0]]
    /\ UNCHANGED <<peticion, exportacion,
                   solventaciones, data_processor, entes, municipios, entes_cache,
                   registros_laborales, reloj, carga, session, respuesta>>

\* One iteration of the loop whose INSERT gets the write lock: the statement
\* opens the transaction of the connection, then the SELECT COUNT(*).
EscritorInsert(w, reg) ==
    /\ escritores[w].pc \in {"bucle", "transaccion"}
    /\ escritores[w].n < MaxLote
    /\ ~BloqueadaPorOtro(w)
    /\ registros_laborales' = InsertOnConflictDoUpdate(registros_laborales, reg, reloj)
    /\ escritores' = [escritores EXCEPT ![w] =
          IF YaExistia(registros_laborales', reg.rfc, reg.ente)
          THEN [pc |-> "transaccion", n |-> @.n + 1,
                insertados |-> @.insertados, actualizados |-> @.actualizados + 1]
          ELSE [pc |-> "transaccion", n |-> @.n + 1,
                insertados |-> @.insertados + 1, actualizados |-> @.actualizados]]
    /\ UNCHANGED <<peticion, exportacion,
                   solventaciones, data_processor, entes, municipios, entes_cache,
                   reloj, carga, session, respuesta>>

\* One iteration of the loop whose INSERT waits for the write lock longer than
\* the timeout of sqlite3.connect: "database is locked" is raised, the except
\* clause prints it and the loop continues.
EscritorBloqueado(w, reg) ==
    /\ escritores[w].pc = "bucle"
    /\ escritores[w].n < MaxLote
    /\ BloqueadaPorOtro(w)
    /\ escritores' = [escritores EXCEPT ![w].n = @ + 1]
    /\ UNCHANGED <<peticion, exportacion,
                   solventaciones, data_processor, entes, municipios, entes_cache,
                   registros_laborales, reloj, carga, session, respuesta>>

\* conn.commit(); conn.close(); return insertados, actualizados
EscritorCommit(w) ==
    /\ escritores[w].pc \in {"bucle", "transaccion"}
    /\ escritores' = [escritores EXCEPT ![w].pc = "fin"]
    /\ UNCHANGED <<peticion, exportacion,
                   solventaciones, data_processor, entes, municipios, entes_cache,
                   registros_laborales, reloj, carga, session, respuesta>>

(***************************************************************************)
(* Catalog seeding, DataProcessor's maps and the reads of the catalog.     *)
(***************************************************************************)
\* poblar_datos_iniciales: the rows inserted into an empty table entes.
EntesBase ==
    << [num |-> "1.2", clave |-> "ENTE_1_2", nombre |-> "Secretaría de Gobierno",
        siglas |-> "SEGOB", activo |-> 1],
       [num |-> "1.4", clave |-> "ENTE_1_4", nombre |-> "Secretaría de Finanzas",
        siglas |-> "SEFIN", activo |-> 1],
       [num |-> "1.8", clave |-> "ENTE_1_8",
        nombre |-> "Secretaría de Educación Pública",
        siglas |-> "SEPE", activo |-> 1] >>

\* DatabaseManager.get_mapa_siglas():
\* {self._sanitize(sigla): clave for sigla, clave in rows if sigla}
RECURSIVE MapaSiglasDe(_, _)
MapaSiglasDe(filas, mapa) ==
    IF filas = <<>> THEN mapa
    ELSE MapaSiglasDe(Tail(filas),
                      IF Head(filas).siglas = None \/ Head(filas).siglas = ""
                      THEN mapa
                      ELSE DictPut(mapa, Sanitize(Head(filas).siglas),
                                   Head(filas).clave))

GetMapaSiglas == MapaSiglasDe(FilasActivas(entes, municipios), <<>>)

\* DatabaseManager.get_mapa_claves_inverso():
\* mapa[self._sanitize(clave)] = self._sanitize(sigla if sigla else nombre)
RECURSIVE MapaInversoDe(_, _)
MapaInversoDe(filas, mapa) ==
    IF filas = <<>> THEN mapa
    ELSE MapaInversoDe(Tail(filas),
                       DictPut(mapa, Sanitize(Head(filas).clave),
                               Sanitize(Or(Head(filas).siglas, Head(filas).nombre))))

GetMapaClavesInverso == MapaInversoDe(FilasActivas(entes, municipios), <<>>)

\* DataProcessor.__init__: the two maps, read from the catalog once.
DataProcessorNuevo ==
    [mapa_siglas |-> GetMapaSiglas, mapa_inverso |-> GetMapaClavesInverso]

\* DataProcessor.normalizar_ente_clave(etiqueta)
NormalizarEtiquetaSalida(etiqueta) ==
    IF etiqueta = None \/ etiqueta = "" THEN None
    ELSE LET val == Upper(Strip(etiqueta))
         IN IF val \in DictKeys(data_processor.mapa_siglas)
            THEN DictGet(data_processor.mapa_siglas, val)
            ELSE NormalizarEnteClave(val)

\* poblar_datos_iniciales(): the base rows, when the table entes is empty.
\* (The base users are rows of Usuarios.)
PoblarDatosIniciales ==
    /\ entes' = IF Len(entes) = 0 THEN EntesBase ELSE entes
    /\ UNCHANGED <<peticion, exportacion,
                   solventaciones, escritores, data_processor,
                   municipios, entes_cache, registros_laborales, reloj, carga,
                   session, respuesta>>

\* The labels the reads of the catalog are asked for.
ValoresCatalogo ==
    {"SEGOB", " segob ", "ENTE_1_2", "Secretaría de Gobierno",
     "SECRETARIA DE GOBIERNO", "SEPE", "ENTE_A", "Gobierno", "MUN_1",
     "Acuamanala", "X_9"}

\* db_manager.normalizar_ente_clave(valor)
NormalizarClave(valor) ==
    /\ respuesta' = [ruta |-> "normalizar_ente_clave", valor |-> valor,
                     clave |-> NormalizarEnteClave(valor)]
    /\ UNCHANGED <<peticion, exportacion,
                   solventaciones, escritores, data_processor,
                   entes, municipios, entes_cache, registros_laborales, reloj,
                   carga, session>>

\* data_processor.normalizar_ente_clave(etiqueta)
NormalizarEtiqueta(etiqueta) ==
    /\ respuesta' = [ruta |-> "DataProcessor.normalizar_ente_clave",
                     valor |-> etiqueta,
                     clave |-> NormalizarEtiquetaSalida(etiqueta)]
    /\ UNCHANGED <<peticion, exportacion,
                   solventaciones, escritores, data_processor,
                   entes, municipios, entes_cache, registros_laborales, reloj,
                   carga, session>>

\* _ente_display(v): a read of the cached index.
LeerEnteDisplay(v) ==
    /\ respuesta' = [ruta |-> "_ente_display", valor |-> v,
                     texto |-> EnteDisplay(v)]
    /\ entes_cache' = CacheCargado
    /\ UNCHANGED <<peticion, exportacion,
                   solventaciones, escritores, data_processor,
                   entes, municipios, registros_laborales, reloj, carga, session>>

(***************************************************************************)
(* Ingestion: DataProcessor.extraer_registros_individuales and             *)
(* upload_laboral. A file is [filename, hojas]; a sheet is [nombre,        *)
(* columnas, filas], columnas telling whether the required columns are     *)
(* there; a row is [RFC, qnas], qnas being the QNA columns marked active.  *)
(***************************************************************************)
MaxArchivos == 1
MaxHojas == 2
MaxFilasHoja == 2

\* re.sub(r"[^A-Z0-9]", "", s)
RECURSIVE SoloAlfanumericos(_)
SoloAlfanumericos(s) ==
    IF Len(s) = 0 THEN ""
    ELSE (IF Contains(Mayusculas \o Digitos, Char(s, 1)) THEN Char(s, 1) ELSE "")
         \o SoloAlfanumericos(SubSeq(s, 2, Len(s)))

\* DataProcessor.limpiar_rfc(rfc); None stands for a cell without value.
LimpiarRfc(rfc) ==
    IF rfc = None THEN None
    ELSE LET t == SoloAlfanumericos(Upper(Strip(rfc)))
         IN IF 10 <= Len(t) /\ Len(t) <= 13 THEN t ELSE None

\* The rows of a sheet with a usable RFC, as records of clave_ente.
RegistrosDeHoja(hoja, clave_ente) ==
    LET validas == SelectSeq(hoja.filas, LAMBDA row : LimpiarRfc(row.RFC) # None)
    IN [i \in 1..Len(validas) |->
           [rfc |-> LimpiarRfc(validas[i].RFC), ente |-> clave_ente,
            qnas |-> validas[i].qnas]]

\* One iteration of `for hoja in xl.sheet_names`: the records and the alerts
\* it adds (mensaje without the warning sign it begins with).
ExtraerDeHoja(nombre_archivo, hoja) ==
    LET ente_label == Upper(Strip(hoja.nombre))
        clave_ente == NormalizarEtiquetaSalida(ente_label)
    IN IF clave_ente = None
       THEN [registros |-> <<>>,
             alertas |-> <<[tipo |-> "ente_no_encontrado",
                            mensaje |-> "Hoja '" \o hoja.nombre
                                \o "' no encontrada en catálogo de entes. Verifique el nombre.",
                            hoja |-> hoja.nombre, archivo |-> nombre_archivo]>>]
       ELSE IF ~hoja.columnas
       THEN [registros |-> <<>>,
             alertas |-> <<[tipo |-> "columnas_faltantes",
                            mensaje |-> "Hoja '" \o hoja.nombre
                                \o "' omitida: faltan columnas requeridas.",
                            hoja |-> hoja.nombre, archivo |-> nombre_archivo]>>]
       ELSE [registros |-> RegistrosDeHoja(hoja, clave_ente), alertas |-> <<>>]

\* The loop over the sheets ending at the first sheet that raises an alert.
RECURSIVE ExtraerDeHojasHastaAlerta(_, _)
ExtraerDeHojasHastaAlerta(nombre_archivo, hojas) ==
    IF hojas = <<>> THEN [registros |-> <<>>, alertas |-> <<>>]
    ELSE LET h == ExtraerDeHoja(nombre_archivo, Head(hojas))
             r == IF h.alertas # <<>> THEN [registros |-> <<>>, alertas |-> <<>>]
                  ELSE ExtraerDeHojasHastaAlerta(nombre_archivo, Tail(hojas))
         IN [registros |-> h.registros \o r.registros,
             alertas |-> h.alertas \o r.alertas]

RECURSIVE ExtraerDeHojas(_, _)
ExtraerDeHojas(nombre_archivo, hojas) ==
    IF hojas = <<>> THEN [registros |-> <<>>, alertas |-> <<>>]
    ELSE LET h == ExtraerDeHoja(nombre_archivo, Head(hojas))
             r == ExtraerDeHojas(nombre_archivo, Tail(hojas))
         IN [registros |-> h.registros \o r.registros,
             alertas |-> h.alertas \o r.alertas]

\* DataProcessor.extraer_registros_individuales(archivos):
\* (registros_individuales, alertas)
RECURSIVE ExtraerRegistrosIndividuales(_)
ExtraerRegistrosIndividuales(archivos) ==
    IF archivos = <<>> THEN [registros |-> <<>>, alertas |-> <<>>]
    ELSE LET f == ExtraerDeHojas(Head(archivos).filename, Head(archivos).hojas)
             r == ExtraerRegistrosIndividuales(Tail(archivos))
         IN [registros |-> f.registros \o r.registros,
             alertas |-> f.alertas \o r.alertas]

\* DatabaseManager.guardar_registros_individuales(registros) in one piece:
\* the table after the call and (insertados, actualizados).
RECURSIVE GuardarRegistrosIndividuales(_, _, _)
GuardarRegistrosIndividuales(acc, registros, ahora) ==
    IF registros = <<>> THEN acc
    ELSE LET reg == Head(registros)
             tabla == InsertOnConflictDoUpdate(acc.tabla, reg, ahora)
         IN GuardarRegistrosIndividuales(
                IF reg.rfc = "" \/ reg.rfc = None \/ reg.ente = "" \/ reg.ente = None
                THEN acc
                ELSE IF YaExistia(tabla, reg.rfc, reg.ente)
                THEN [acc EXCEPT !.tabla = tabla, !.actualizados = @ + 1]
                ELSE [acc EXCEPT !.tabla = tabla, !.insertados = @ + 1],
                Tail(registros), ahora)

\* POST /upload_laboral with the files of peticion.
UploadLaboral ==
    /\ ~carga.activa
    /\ IF ~session.autenticado
       THEN /\ respuesta' = [ruta |-> "upload_laboral", status |-> 403,
                             error |-> "No autorizado"]
            /\ UNCHANGED registros_laborales
       ELSE IF peticion = <<>>
       THEN /\ respuesta' = [ruta |-> "upload_laboral", status |-> 200,
                             error |-> "No se enviaron archivos"]
            /\ UNCHANGED registros_laborales
       ELSE LET ext == ExtraerRegistrosIndividuales(peticion)
                res == GuardarRegistrosIndividuales(
                           [tabla |-> registros_laborales,
                            insertados |-> 0, actualizados |-> 0],
                           ext.registros, reloj)
            IN /\ registros_laborales' = res.tabla
               /\ respuesta' = [ruta |-> "upload_laboral", status |-> 200,
                                total_procesados |-> Len(ext.registros),
                                insertados |-> res.insertados,
                                actualizados |-> res.actualizados,
                                alertas |-> ext.alertas]
    /\ UNCHANGED <<peticion, exportacion, solventaciones, escritores,
                   data_processor, entes, municipios, entes_cache, reloj, carga,
                   session>>

\* The uploads of the model: sheet names, RFC cells and files.
NombresHoja == {"SEGOB", "mun_1", "X_9"}

RfcsCrudos == {"abcd800101", "AB-1", None}

FilasDeHoja ==
    UNION {[1..n -> [RFC : RfcsCrudos, qnas : {{"QNA1"}}]] : n \in 0..MaxFilasHoja}

Hojas == [nombre : NombresHoja, columnas : BOOLEAN, filas : FilasDeHoja]

\* The sheets of a workbook have distinct names.
HojasDeArchivo ==
    {hs \in UNION {[1..n -> Hojas] : n \in 1..MaxHojas} :
        \A i, j \in 1..Len(hs) : hs[i].nombre = hs[j].nombre => i = j}

Archivos ==
    UNION {[1..n -> [filename : {"a.xlsx"}, hojas : HojasDeArchivo]]
           : n \in 0..MaxArchivos}

(***************************************************************************)
(* Specifications.                                                         *)
(***************************************************************************)
SinCache == [cargado |-> FALSE, data |-> <<>>]

\* No upload is being served.
SinPeticion == <<>>

\* No export is being built.
ExportFuera == [pc |-> "fuera", agregados |-> <<>>, mapa_coment |-> {}, filas |-> <<>>]

Init ==
    /\ entes = CatalogoEntes
    /\ municipios = CatalogoMunicipios
    /\ entes_cache = SinCache
    /\ registros_laborales = EmptyBag
    /\ reloj = 0
    /\ carga = SinCarga
    /\ session = [autenticado |-> TRUE, entes |-> <<"TODOS">>]
    /\ respuesta = [ruta |-> None]
    /\ solventaciones = EmptyBag
    /\ escritores = SinEscritores
    /\ data_processor = DataProcessorNuevo
    /\ peticion = SinPeticion
    /\ exportacion = ExportFuera

Next ==
    \/ GuardarInicio
    \/ \E reg \in RegistrosEntrada : GuardarRegistro(reg)
    \/ GuardarFin
    \/ Tick

Spec == Init /\ [][Next]_vars

\* A stored record set of at most n rows over the given rfcs, one row per
\* (rfc, ente).
ClavesDe(rfcs, n) ==
    {K \in SUBSET (rfcs \X EtiquetasEnte) : Cardinality(K) <= n}

TablaDe(K, q) ==
    SetToBag({[rfc |-> k[1], ente |-> k[2], qnas |-> q[k],
               fecha_carga |-> 0, fecha_actualizacion |-> 0] : k \in K})

RfcsVista == {"RFC" \o ToString(n) : n \in 1..MaxRfcVista}

InitVistas ==
    /\ entes = CatalogoEntes
    /\ municipios = CatalogoMunicipios
    /\ entes_cache = SinCache
    /\ \E K \in ClavesDe(RfcsVista, MaxRegistrosVista) : \E q \in [K -> SUBSET Qnas] :
          registros_laborales = TablaDe(K, q)
    /\ reloj = 0
    /\ carga = SinCarga
    /\ session = SinSesion
    /\ respuesta = [ruta |-> None]
    /\ solventaciones = EmptyBag
    /\ escritores = SinEscritores
    /\ data_processor = DataProcessorNuevo
    /\ peticion = SinPeticion
    /\ exportacion = ExportFuera

NextVistas ==
    \/ \E row \in Usuarios : Login(row)
    \/ Logout
    \/ VerificarAutenticacion
    \/ ReportePorEnte
    \/ ExportarGeneral
    \/ \E ente_sel \in EntesSeleccionables : ExportarPorEnte(ente_sel)
    \/ \E rfc \in Rfcs : ResultadosPorRfc(rfc)

SpecVistas == InitVistas /\ [][NextVistas]_vars

\* db_manager.obtener_cruces_reales() called on the stored record set.
ObtenerCruces ==
    /\ respuesta' = [ruta |-> "obtener_cruces_reales",
                     resultados |-> ObtenerCrucesReales(registros_laborales)]
    /\ UNCHANGED <<peticion, exportacion,
                   solventaciones, escritores, data_processor,
                   entes, municipios, entes_cache, registros_laborales, reloj,
                   carga, session>>

InitCruces ==
    /\ entes = CatalogoEntes
    /\ municipios = CatalogoMunicipios
    /\ entes_cache = SinCache
    /\ \E K \in ClavesDe(Rfcs, MaxRegistrosCruces) : \E q \in [K -> SUBSET Qnas] :
          registros_laborales = TablaDe(K, q)
    /\ reloj = 0
    /\ carga = SinCarga
    /\ session = SinSesion
    /\ respuesta = [ruta |-> None]
    /\ solventaciones = EmptyBag
    /\ escritores = SinEscritores
    /\ data_processor = DataProcessorNuevo
    /\ peticion = SinPeticion
    /\ exportacion = ExportFuera

NextCruces == ObtenerCruces

SpecCruces == InitCruces /\ [][NextCruces]_vars

\* Tokens of session["entes"] the classification is applied to.
Tokens ==
    {"TODOS", "ALL", " todos ", "Todos los entes", "TODOS LOS MUNICIPIOS",
     "TODOS LOS ENTES Y MUNICIPIOS", "ENTE_A", "ENTES", ""}

ListasDeTokens == UNION {[1..n -> Tokens] : n \in 0..MaxTokens}

\* modo_permiso = _allowed_all(entes_usuario)
Clasificar ==
    /\ respuesta' = [ruta |-> "_allowed_all",
                     modo_permiso |-> AllowedAll(session.entes)]
    /\ UNCHANGED <<peticion, exportacion,
                   solventaciones, escritores, data_processor,
                   entes, municipios, entes_cache, registros_laborales, reloj,
                   carga, session>>

InitAcceso ==
    /\ entes = CatalogoEntes
    /\ municipios = CatalogoMunicipios
    /\ entes_cache = SinCache
    /\ registros_laborales = EmptyBag
    /\ reloj = 0
    /\ carga = SinCarga
    /\ \E toks \in ListasDeTokens : session = [autenticado |-> TRUE, entes |-> toks]
    /\ respuesta = [ruta |-> None]
    /\ solventaciones = EmptyBag
    /\ escritores = SinEscritores
    /\ data_processor = DataProcessorNuevo
    /\ peticion = SinPeticion
    /\ exportacion = ExportFuera

NextAcceso == Clasificar

SpecAcceso == InitAcceso /\ [][NextAcceso]_vars

\* The application started on a database whose tables entes and municipios
\* are empty or already loaded; DataProcessor() has read the catalog.
InitCatalogo ==
    /\ entes \in {<<>>, CatalogoEntes}
    /\ municipios \in {<<>>, CatalogoMunicipios}
    /\ entes_cache = SinCache
    /\ registros_laborales = EmptyBag
    /\ reloj = 0
    /\ carga = SinCarga
    /\ session = SinSesion
    /\ respuesta = [ruta |-> None]
    /\ solventaciones = EmptyBag
    /\ escritores = SinEscritores
    /\ data_processor = DataProcessorNuevo
    /\ peticion = SinPeticion
    /\ exportacion = ExportFuera

NextCatalogo ==
    \/ PoblarDatosIniciales
    \/ \E valor \in ValoresCatalogo : NormalizarClave(valor)
    \/ \E etiqueta \in ValoresCatalogo : NormalizarEtiqueta(etiqueta)
    \/ \E v \in ValoresCatalogo : LeerEnteDisplay(v)

SpecCatalogo == InitCatalogo /\ [][NextCatalogo]_vars

\* The stored record sets the reviews run over: one rfc at one or two of
\* three entities, every period active.
ClavesRevision ==
    {K \in SUBSET (RfcsVista \X {"ENTE_A", "MUN_1", "X_9"}) :
        Cardinality(K) \in 1..MaxRegistrosVista}

InitRevision ==
    /\ entes = CatalogoEntes
    /\ municipios = CatalogoMunicipios
    /\ entes_cache = SinCache
    /\ \E K \in ClavesRevision : registros_laborales = TablaDe(K, [k \in K |-> Qnas])
    /\ reloj = 0
    /\ carga = SinCarga
    /\ session = [autenticado |-> TRUE, entes |-> <<"TODOS">>]
    /\ respuesta = [ruta |-> None]
    /\ solventaciones = EmptyBag
    /\ escritores = SinEscritores
    /\ data_processor = DataProcessorNuevo
    /\ peticion = SinPeticion
    /\ exportacion = ExportFuera

NextRevision ==
    \/ \E rfc \in RfcsVista : \E ente \in EntesRevision : \E form \in Formularios :
          ActualizarEstado(rfc, ente, form)
    \/ \E rfc \in RfcsVista : \E ente_sel \in EntesRevision : \E form \in Formularios :
          SolventacionPost(rfc, ente_sel, form)
    \/ \E rfc \in RfcsVista : \E ente_sel \in EntesRevision : SolventacionGet(rfc, ente_sel)
    \/ \E rfc \in RfcsVista : ResultadosPorRfc(rfc)
    \/ \E rfc \in RfcsVista : \E ente_raw \in EntesRevision \ {None} :
          ConsultarEstado(rfc, ente_raw)

SpecRevision == InitRevision /\ [][NextRevision]_vars

\* Two calls of guardar_registros_individuales on connections of their own,
\* over an empty table.
NextEscritores ==
    \/ \E w \in Escritores : EscritorInicio(w)
    \/ \E w \in Escritores : \E reg \in RegistrosConcurrentes : EscritorInsert(w, reg)
    \/ \E w \in Escritores : \E reg \in RegistrosConcurrentes : EscritorBloqueado(w, reg)
    \/ \E w \in Escritores : EscritorCommit(w)
    \/ Tick

SpecEscritores == Init /\ [][NextEscritores]_vars

\* The records and the reviews of the runs that mix ingestion, reviews, the
\* detector and the export.
RegistrosPropiedad ==
    {[rfc |-> "RFC1", ente |-> "ENTE_A", qnas |-> {"QNA1"}],
     [rfc |-> "RFC1", ente |-> "ENTE_A", qnas |-> Qnas],
     [rfc |-> "RFC1", ente |-> "MUN_1", qnas |-> {"QNA1"}]}

FormulariosPropiedad == {form \in Formularios : form.estado # None}

NextPropiedad ==
    \/ GuardarInicio
    \/ \E reg \in RegistrosPropiedad : GuardarRegistro(reg)
    \/ GuardarFin
    \/ \E ente \in {None, "SEGOB"} : \E form \in FormulariosPropiedad :
          ActualizarEstado("RFC1", ente, form)
    \/ ObtenerCruces
    \/ ExportarGeneral

SpecPropiedad == Init /\ [][NextPropiedad]_vars

\* _construir_filas_export(_filtrar_duplicados_reales(obtener_cruces_reales()))
\* as both exports call it, before the rows labelled "N/A" are dropped.
ConstruirFilas ==
    /\ ~carga.activa
    /\ session.autenticado
    /\ respuesta' = [ruta |-> "_construir_filas_export", filas |-> FilasSinFiltrar]
    /\ entes_cache' = IF ResultadosFiltrados = <<>> THEN entes_cache ELSE CacheCargado
    /\ UNCHANGED <<peticion, exportacion,
                   solventaciones, escritores, data_processor,
                   entes, municipios, registros_laborales, reloj, carga, session>>

\* The exports over a stored record set of one rfc, with reviews in between.
MaxRegistrosExport == 3

EtiquetasExport == {"ENTE_A", "MUN_1", "X_9"}

EntesExport == {"SEGOB", "X_9"}

InitExport ==
    /\ entes = CatalogoEntes
    /\ municipios = CatalogoMunicipios
    /\ entes_cache = SinCache
    /\ \E K \in SUBSET ({"RFC1"} \X EtiquetasExport) : \E q \in [K -> SUBSET Qnas] :
          /\ Cardinality(K) <= MaxRegistrosExport
          /\ registros_laborales = TablaDe(K, q)
    /\ reloj = 0
    /\ carga = SinCarga
    /\ session = [autenticado |-> TRUE, entes |-> <<"TODOS">>]
    /\ respuesta = [ruta |-> None]
    /\ solventaciones = EmptyBag
    /\ escritores = SinEscritores
    /\ data_processor = DataProcessorNuevo
    /\ peticion = SinPeticion
    /\ exportacion = ExportFuera

NextExport ==
    \/ \E ente \in EntesExport : \E form \in FormulariosPropiedad :
          ActualizarEstado("RFC1", ente, form)
    \/ ConstruirFilas
    \/ ExportarGeneral

SpecExport == InitExport /\ [][NextExport]_vars

\* Uploads of one request, submitted once or again, over an empty table.
InitIngesta ==
    /\ entes = CatalogoEntes
    /\ municipios = CatalogoMunicipios
    /\ entes_cache = SinCache
    /\ registros_laborales = EmptyBag
    /\ reloj = 0
    /\ carga = SinCarga
    /\ session = [autenticado |-> TRUE, entes |-> <<"TODOS">>]
    /\ respuesta = [ruta |-> None]
    /\ solventaciones = EmptyBag
    /\ escritores = SinEscritores
    /\ data_processor = DataProcessorNuevo
    /\ peticion \in Archivos
    /\ exportacion = ExportFuera

NextIngesta ==
    \/ UploadLaboral
    \/ Tick

SpecIngesta == InitIngesta /\ [][NextIngesta]_vars

\* _construir_filas_export running in a request of its own while other
\* requests are served: each read of the database is a step.  The first
\* step builds agregados from the results the caller read.
ExportInicio ==
    /\ ~carga.activa
    /\ session.autenticado
    /\ exportacion.pc = "fuera"
    /\ exportacion' = [pc |-> "comentarios",
                       agregados |-> Agregados(ResultadosFiltrados),
                       mapa_coment |-> {}, filas |-> <<>>]
    /\ entes_cache' = IF ResultadosFiltrados = <<>> THEN entes_cache ELSE CacheCargado
    /\ UNCHANGED <<peticion, solventaciones, escritores, data_processor,
                   entes, municipios, registros_laborales, reloj, carga, session,
                   respuesta>>

\* SELECT rfc, ente, comentario FROM solventaciones
ExportComentarios ==
    /\ exportacion.pc = "comentarios"
    /\ exportacion' = [exportacion EXCEPT !.pc = "filas",
                                          !.mapa_coment = MapaComent(solventaciones)]
    /\ UNCHANGED <<peticion, solventaciones, escritores, data_processor,
                   entes, municipios, entes_cache, registros_laborales, reloj,
                   carga, session, respuesta>>

\* One iteration of `for key, item in agregados.items()`: get_estado_rfc_ente
\* reads the table, the comment comes from mapa_coment.
ExportFila ==
    /\ exportacion.pc = "filas"
    /\ Len(exportacion.filas) < Len(exportacion.agregados)
    /\ exportacion' = [exportacion EXCEPT !.filas =
           Append(@, FilaDeItem(exportacion.agregados[Len(@) + 1],
                                exportacion.mapa_coment))]
    /\ UNCHANGED <<peticion, solventaciones, escritores, data_processor,
                   entes, municipios, entes_cache, registros_laborales, reloj,
                   carga, session, respuesta>>

\* return filas
ExportFin ==
    /\ exportacion.pc = "filas"
    /\ Len(exportacion.filas) = Len(exportacion.agregados)
    /\ respuesta' = [ruta |-> "_construir_filas_export", filas |-> exportacion.filas]
    /\ exportacion' = ExportFuera
    /\ UNCHANGED <<peticion, solventaciones, escritores, data_processor,
                   entes, municipios, entes_cache, registros_laborales, reloj,
                   carga, session>>

\* An export and reviews of RFC1 at its two entities served at once.
InitExportConcurrente ==
    /\ entes = CatalogoEntes
    /\ municipios = CatalogoMunicipios
    /\ entes_cache = SinCache
    /\ \E K \in SUBSET ({"RFC1"} \X {"ENTE_A", "MUN_1"}) : \E q \in [K -> SUBSET Qnas] :
          registros_laborales = TablaDe(K, q)
    /\ reloj = 0
    /\ carga = SinCarga
    /\ session = [autenticado |-> TRUE, entes |-> <<"TODOS">>]
    /\ respuesta = [ruta |-> None]
    /\ solventaciones = EmptyBag
    /\ escritores = SinEscritores
    /\ data_processor = DataProcessorNuevo
    /\ peticion = SinPeticion
    /\ exportacion = ExportFuera

NextExportConcurrente ==
    \/ \E ente \in {"SEGOB", "MUN_1"} : \E form \in FormulariosPropiedad :
          ActualizarEstado("RFC1", ente, form)
    \/ ExportInicio
    \/ ExportComentarios
    \/ ExportFila
    \/ ExportFin

SpecExportConcurrente == InitExportConcurrente /\ [][NextExportConcurrente]_vars

\* The grouped view over the records of one rfc at up to three entities,
\* with reviews in between, for a session that sees every entity.
EtiquetasAgrupado == {"ENTE_A", "MUN_1", "X_9"}

InitAgrupado ==
    /\ entes = CatalogoEntes
    /\ municipios = CatalogoMunicipios
    /\ entes_cache = SinCache
    /\ \E K \in SUBSET ({"RFC1"} \X EtiquetasAgrupado) : \E q \in [K -> SUBSET Qnas] :
          registros_laborales = TablaDe(K, q)
    /\ reloj = 0
    /\ carga = SinCarga
    /\ session = [autenticado |-> TRUE, entes |-> <<"TODOS">>]
    /\ respuesta = [ruta |-> None]
    /\ solventaciones = EmptyBag
    /\ escritores = SinEscritores
    /\ data_processor = DataProcessorNuevo
    /\ peticion = SinPeticion
    /\ exportacion = ExportFuera

NextAgrupado ==
    \/ \E ente \in {"SEGOB", "MUN_1"} : \E form \in FormulariosPropiedad :
          ActualizarEstado("RFC1", ente, form)
    \/ ReportePorEnte

SpecAgrupado == InitAgrupado /\ [][NextAgrupado]_vars

\* The two detectors run over one record set: obtener_cruces_reales() over
\* the stored rows, _cruces_quincenales over the same records in the order
\* the sheets gave them.
CompararDetectores(leidos) ==
    /\ respuesta' = [ruta |-> "detectores",
                     reales |-> ObtenerCrucesReales(registros_laborales),
                     quincenales |-> CrucesQuincenales(
                         [i \in 1..Len(leidos) |->
                             [rfc |-> leidos[i].rfc, ente |-> leidos[i].ente,
                              qnas |-> leidos[i].qnas]])]
    /\ UNCHANGED <<peticion, exportacion,
                   solventaciones, escritores, data_processor,
                   entes, municipios, entes_cache, registros_laborales, reloj,
                   carga, session>>

\* Record sets of up to three records, one per (rfc, ente).
MaxRegistrosDetectores == 3

InitDetectores ==
    /\ entes = CatalogoEntes
    /\ municipios = CatalogoMunicipios
    /\ entes_cache = SinCache
    /\ \E K \in ClavesDe(Rfcs, MaxRegistrosDetectores) : \E q \in [K -> SUBSET Qnas] :
          registros_laborales = TablaDe(K, q)
    /\ reloj = 0
    /\ carga = SinCarga
    /\ session = SinSesion
    /\ respuesta = [ruta |-> None]
    /\ solventaciones = EmptyBag
    /\ escritores = SinEscritores
    /\ data_processor = DataProcessorNuevo
    /\ peticion = SinPeticion
    /\ exportacion = ExportFuera

NextDetectores == \E leidos \in OrdenesDe(registros_laborales) : CompararDetectores(leidos)

SpecDetectores == InitDetectores /\ [][NextDetectores]_vars

\* GET /catalogos
CatalogosHome ==
    /\ ~carga.activa
    /\ session.autenticado
    /\ respuesta' = [ruta |-> "catalogos", entes |-> ListarEntes,
                     municipios |-> ListarMunicipios]
    /\ UNCHANGED <<peticion, exportacion,
                   solventaciones, escritores, data_processor,
                   entes, municipios, entes_cache, registros_laborales, reloj,
                   carga, session>>

\* The catalog page over tables of up to two rows each, whose num is drawn
\* from dotted numbers of one and two parts and one with a letter.
MaxFilasListado == 2

NumsListado == {"1.2", "1.10", "1.A", "2", "10"}

ClavesEntesListado == <<"ENTE_A", "ENTE_B">>

ClavesMunicipiosListado == <<"MUN_1", "MUN_2">>

TablasListado(claves) ==
    UNION {{[i \in 1..n |-> [num |-> nums[i], clave |-> claves[i], nombre |-> claves[i],
                             siglas |-> None, activo |-> act[i]]] :
               nums \in [1..n -> NumsListado], act \in [1..n -> {0, 1}]} :
           n \in 0..MaxFilasListado}

InitListado ==
    /\ entes \in TablasListado(ClavesEntesListado)
    /\ municipios \in TablasListado(ClavesMunicipiosListado)
    /\ entes_cache = SinCache
    /\ registros_laborales = EmptyBag
    /\ reloj = 0
    /\ carga = SinCarga
    /\ session = [autenticado |-> TRUE, entes |-> <<"TODOS">>]
    /\ respuesta = [ruta |-> None]
    /\ solventaciones = EmptyBag
    /\ escritores = SinEscritores
    /\ data_processor = DataProcessorNuevo
    /\ peticion = SinPeticion
    /\ exportacion = ExportFuera

NextListado == CatalogosHome

SpecListado == InitListado /\ [][NextListado]_vars

(***************************************************************************)
(* Properties.                                                             *)
(***************************************************************************)
\* The rows of the record store.
Filas == BagToSet(registros_laborales)

\* Two rows of one rfc at distinct entities whose active periods intersect.
SeCruzan(f, g) ==
    /\ f.rfc = g.rfc
    /\ f.ente # g.ente
    /\ (f.qnas \cap g.qnas) # {}

\* The kind of the entity a record label names: the catalog table that holds
\* its key.
Kind(e) ==
    IF \E i \in 1..Len(entes) : SanitizeText(entes[i].clave) = SanitizeText(e)
    THEN "ORGANIZATION"
    ELSE IF \E i \in 1..Len(municipios) :
                SanitizeText(municipios[i].clave) = SanitizeText(e)
    THEN "MUNICIPALITY"
    ELSE "UNKNOWN"

\* The entities of the cross-references /resultados chooses from.
Candidatos == UNION {r.entes_cruce_real : r \in Rango(ResultadosFiltrados)}

\* The record labels shown as groups of a /resultados response.
EntesMostrados(resp) ==
    UNION {x.claves : x \in UNION {resp.resultados[n] : n \in DOMAIN resp.resultados}}

\* The catalog keys listed in entes_info of a /resultados response.
EntesListados(resp) ==
    {resp.entes_info[i].v.clave : i \in 1..Len(resp.entes_info)}

\* C1: after any sequence of upserts, batches that repeat a pair included, the
\* record store holds no two records with the same (rfc, ente): every pair is
\* in at most one row, and that row is there once.
C1_ParUnico ==
    \A f \in Filas :
        /\ CopiesIn(f, registros_laborales) = 1
        /\ \A g \in Filas : (g.rfc = f.rfc /\ g.ente = f.ente) => g = f

\* A batch has upserted the same pair twice: two records stored, one row.
C1_ParRepetido ==
    /\ carga.activa
    /\ carga.insertados + carga.actualizados = 2
    /\ BagCardinality(registros_laborales) = 1

\* C2: obtener_cruces_reales returns a cross-reference for an rfc if and only
\* if two rows of that rfc at distinct entities have intersecting active
\* periods; an rfc at one entity only, or at entities with pairwise disjoint
\* periods, gets none.
C2_CruceSiiInterseccion ==
    respuesta.ruta = "obtener_cruces_reales" =>
        \A rfc \in Rfcs :
            (\E i \in 1..Len(respuesta.resultados) : respuesta.resultados[i].rfc = rfc)
            <=> (\E f, g \in Filas : f.rfc = rfc /\ SeCruzan(f, g))

\* One rfc has a cross-reference, another is at two entities with disjoint,
\* non-empty periods and has none.
C2_CruceYDisjuntos ==
    /\ respuesta.ruta = "obtener_cruces_reales"
    /\ Len(respuesta.resultados) = 1
    /\ \E f, g \in Filas :
          /\ f.rfc = g.rfc /\ f.ente # g.ente
          /\ f.rfc # respuesta.resultados[1].rfc
          /\ f.qnas # {} /\ g.qnas # {} /\ (f.qnas \cap g.qnas) = {}

\* C3: the entes of every cross-reference returned are exactly the entities
\* of the rfc that are in some pair with intersecting active periods, each
\* listed once; an entity of the rfc that overlaps no other is left out.
C3_EntesInvolucrados ==
    respuesta.ruta = "obtener_cruces_reales" =>
        \A i \in 1..Len(respuesta.resultados) :
            LET c == respuesta.resultados[i]
            IN /\ Rango(c.entes) =
                     {f.ente : f \in {x \in Filas :
                          x.rfc = c.rfc /\ \E g \in Filas : SeCruzan(x, g)}}
               /\ Len(c.entes) = Cardinality(Rango(c.entes))

\* A cross-reference of two entities whose rfc is also at a third entity with
\* active periods of its own.
C3_TerceroExcluido ==
    /\ respuesta.ruta = "obtener_cruces_reales"
    /\ \E i \in 1..Len(respuesta.resultados) :
          /\ Len(respuesta.resultados[i].entes) = 2
          /\ \E f \in Filas :
                /\ f.rfc = respuesta.resultados[i].rfc
                /\ f.qnas # {}
                /\ f.ente \notin Rango(respuesta.resultados[i].entes)

\* C4: the qnas_cruce of every cross-reference returned are exactly the
\* periods in which at least two distinct entities of the rfc are active,
\* each listed once; a period active at one entity only is not listed.
C4_QnasCruce ==
    respuesta.ruta = "obtener_cruces_reales" =>
        \A i \in 1..Len(respuesta.resultados) :
            LET c == respuesta.resultados[i]
            IN /\ Rango(c.qnas_cruce) =
                     {q \in Qnas : \E f, g \in Filas :
                          /\ f.rfc = c.rfc /\ g.rfc = c.rfc /\ f.ente # g.ente
                          /\ q \in f.qnas /\ q \in g.qnas}
               /\ Len(c.qnas_cruce) = Cardinality(Rango(c.qnas_cruce))

\* A cross-reference whose two periods come from different pairs of entities,
\* no pair sharing both.
C4_UnionDePares ==
    /\ respuesta.ruta = "obtener_cruces_reales"
    /\ \E i \in 1..Len(respuesta.resultados) :
          /\ Len(respuesta.resultados[i].qnas_cruce) = 2
          /\ \A f, g \in Filas :
                (f.rfc = respuesta.resultados[i].rfc /\ SeCruzan(f, g))
                    => Cardinality(f.qnas \cap g.qnas) = 1

\* C5: no output exposes an entity the user is not permitted: the groups of
\* /resultados and the other entities their entries list, the entities of
\* /resultados/<rfc>, and the origin of every row of /exportar_general and
\* /exportar_por_ente are all permitted under the mode of the session.
C5_SinExposicion ==
    LET modo == AllowedAll(session.entes)
        cat == entes \o municipios
        AliasSet(r) == {SanitizeText(r.clave), SanitizeText(r.nombre)}
                       \cup (IF r.siglas = None \/ r.siglas = "" THEN {}
                             ELSE {SanitizeText(r.siglas)})
        Permitido(e) ==
            IF modo = "ALL" THEN TRUE
            ELSE IF modo = "ENTES" THEN Kind(e) = "ORGANIZATION"
            ELSE IF modo = "MUNICIPIOS" THEN Kind(e) = "MUNICIPALITY"
            ELSE \E j \in 1..Len(session.entes) : \E i \in 1..Len(cat) :
                    /\ SanitizeText(session.entes[j]) \in AliasSet(cat[i])
                    /\ SanitizeText(e) \in AliasSet(cat[i])
        Otros(x) == UNION {{en \in Rango(r.entes) :
                               \E e \in x.claves : SanitizeText(en) # SanitizeText(e)}
                           : r \in {y \in Rango(ResultadosFiltrados) : y.rfc = x.rfc}}
    IN /\ respuesta.ruta = "resultados" =>
            \A n \in DOMAIN respuesta.resultados : \A x \in respuesta.resultados[n] :
                \A e \in x.claves \cup Otros(x) : Permitido(e)
       /\ respuesta.ruta \in {"exportar_general", "exportar_por_ente"} =>
            \A f \in Rango(respuesta.datos) : Permitido(f.ente_origen_raw)
       /\ (respuesta.ruta = "resultados_por_rfc"
              /\ respuesta.plantilla = "detalle_rfc.html") =>
            \A e \in Rango(respuesta.info.entes) : Permitido(e)

\* A user whose only token resolves to ENTE_A exports a row whose origin is
\* the municipality MUN_1.
C5_ExportaMunicipio ==
    /\ session.entes = <<"ENTE_A">>
    /\ respuesta.ruta = "exportar_general"
    /\ \E f \in Rango(respuesta.datos) : f.ente_origen_raw = "MUN_1"

\* C6: the filter of the cross-reference groups and the filter of the catalog
\* listing decide alike: an entity of the catalog that is in a cross-reference
\* is shown as a group iff it is listed, and in mode MUNICIPIOS the groups are
\* exactly the municipalities in a cross-reference and the listing exactly the
\* municipalities of the catalog.
C6_FiltroUniforme ==
    respuesta.ruta = "resultados" =>
        LET mostrados == EntesMostrados(respuesta)
            listados == EntesListados(respuesta)
            catalogo == {TodosEntidades[i].clave : i \in 1..Len(TodosEntidades)}
        IN /\ \A e \in Candidatos \cap catalogo :
                  e \in mostrados <=> e \in listados
           /\ respuesta.modo_permiso = "MUNICIPIOS" =>
                  /\ mostrados = {e \in Candidatos : Kind(e) = "MUNICIPALITY"}
                  /\ listados = {e \in catalogo : Kind(e) = "MUNICIPALITY"}

\* A ["TODOS LOS MUNICIPIOS"] user: MUN_1 is in a cross-reference and in the
\* catalog listing, and no group shows it.
C6_MunicipioOmitido ==
    /\ session.entes = <<"TODOS LOS MUNICIPIOS">>
    /\ respuesta.ruta = "resultados"
    /\ "MUN_1" \in Candidatos
    /\ "MUN_1" \in EntesListados(respuesta)
    /\ "MUN_1" \notin EntesMostrados(respuesta)

\* C7: _allowed_all follows the rule: without the reserved all-token, both
\* wildcard flags give "ALL", the organizations flag alone "ENTES", the
\* municipalities flag alone "MUNICIPIOS", and neither flag None (explicit).
C7_Clasificacion ==
    respuesta.ruta = "_allowed_all" =>
        LET toks == {SanitizeText(session.entes[i]) : i \in 1..Len(session.entes)}
            org == \E t \in toks : Contains(t, "TODOS") /\ Contains(t, "ENTE")
            mun == \E t \in toks : Contains(t, "TODOS") /\ Contains(t, "MUNICIP")
            m == respuesta.modo_permiso
        IN "TODOS" \notin toks =>
              /\ (org /\ mun) => m = "ALL"
              /\ (org /\ ~mun) => m = "ENTES"
              /\ (~org /\ mun) => m = "MUNICIPIOS"
              /\ (~org /\ ~mun) => m = None

\* Two tokens, one of them an organizations wildcard, classified "ENTES".
C7_SoloEntes ==
    /\ respuesta.ruta = "_allowed_all"
    /\ Len(session.entes) = 2
    /\ respuesta.modo_permiso = "ENTES"

\* C8, as the code has it: a user whose token list is ["TODOS"] is classified
\* "ALL" and is permitted every entity whatever its kind: every entity of a
\* cross-reference is a group and every catalog entity is listed.
C8_TodosPermiteTodo ==
    (respuesta.ruta = "resultados" /\ session.entes = <<"TODOS">>) =>
        /\ respuesta.modo_permiso = "ALL"
        /\ EntesMostrados(respuesta) = Candidatos
        /\ EntesListados(respuesta) =
              {TodosEntidades[i].clave : i \in 1..Len(TodosEntidades)}

\* C8, as stated: a user whose token list is ["ALL"] is classified "ALL" and
\* is permitted every entity whatever its kind.
C8_AllPermiteTodo ==
    (respuesta.ruta = "resultados" /\ session.entes = <<"ALL">>) =>
        /\ respuesta.modo_permiso = "ALL"
        /\ EntesMostrados(respuesta) = Candidatos
        /\ EntesListados(respuesta) =
              {TodosEntidades[i].clave : i \in 1..Len(TodosEntidades)}

\* The ["TODOS"] user sees a group of an entity the catalog does not know.
C8_TodosVeDesconocido ==
    /\ respuesta.ruta = "resultados"
    /\ session.entes = <<"TODOS">>
    /\ \E e \in EntesMostrados(respuesta) : Kind(e) = "UNKNOWN"

C10_ExplicitoSiiAlias ==
    (respuesta.ruta = "resultados" /\ respuesta.modo_permiso = None) =>
        LET cat == entes \o municipios
            AliasSet(r) == {SanitizeText(r.clave), SanitizeText(r.nombre)}
                           \cup (IF r.siglas = None \/ r.siglas = "" THEN {}
                                 ELSE {SanitizeText(r.siglas)})
            Permitido(e) ==
                \E j \in 1..Len(session.entes) : \E i \in 1..Len(cat) :
                    /\ SanitizeText(session.entes[j]) \in AliasSet(cat[i])
                    /\ SanitizeText(e) \in AliasSet(cat[i])
        IN /\ EntesMostrados(respuesta) = {e \in Candidatos : Permitido(e)}
           /\ EntesListados(respuesta) =
                 {TodosEntidades[i].clave : i \in
                     {k \in 1..Len(TodosEntidades) : Permitido(TodosEntidades[k].clave)}}

\* A user whose only token resolves to MUN_1, an entity without acronym, is
\* shown the group of a record whose label is blank.
C10_EtiquetaEnBlanco ==
    /\ session.entes = <<"MUN_1">>
    /\ respuesta.ruta = "resultados"
    /\ respuesta.modo_permiso = None
    /\ " " \in EntesMostrados(respuesta)

\* The key, the acronym (when there is one) and the name of a catalog row.
AliasDeFila(r) ==
    {r.clave, r.nombre} \cup (IF r.siglas = None THEN {} ELSE {r.siglas})

\* C11: for every active entity of the catalog, normalizar_ente_clave applied
\* to the entity's key, to its acronym and to its name, each trimmed, put in
\* upper case and stripped of accents, returns the key of that entity.
C11_AliasResuelve ==
    LET filas == FilasActivas(entes, municipios)
    IN \A i \in 1..Len(filas) : \A a \in AliasDeFila(filas[i]) :
          NormalizarEnteClave(Sanitize(a)) = filas[i].clave

\* With the base rows in the catalog, the name of ENTE_1_2 without accents and
\* in capitals was asked for and no key came back.
C11_NombreSinResolver ==
    /\ entes = EntesBase
    /\ respuesta.ruta = "normalizar_ente_clave"
    /\ respuesta.valor = "SECRETARIA DE GOBIERNO"
    /\ respuesta.clave = None
    /\ NormalizarEnteClave(Sanitize(EntesBase[1].nombre)) = None

\* C12: the cached index of the catalog is never stale: whenever the cache of
\* _entes_cache is loaded it holds what the catalog tables hold now, and the
\* maps of DataProcessor are those of the catalog tables now, so that every
\* read after a change of the catalog returns the current contents.
C12_IndiceVigente ==
    /\ entes_cache.cargado =>
          entes_cache.data = ConstruirCache(FilasCatalogo(entes, municipios), <<>>)
    /\ data_processor = DataProcessorNuevo

\* After the base rows were inserted, _ente_display("ENTE_1_2") still answers
\* from the index loaded on the empty catalog: the label itself, not SEGOB.
C12_LecturaObsoleta ==
    /\ entes = EntesBase
    /\ entes_cache.cargado
    /\ respuesta.ruta = "_ente_display"
    /\ respuesta.valor = "ENTE_1_2"
    /\ respuesta.texto = "ENTE_1_2"
    /\ EnteDisplay("ENTE_1_2") = "ENTE_1_2"
    /\ "SEGOB" \notin DictKeys(data_processor.mapa_siglas)

\* The rows of solventaciones a review of (rfc, ente) writes to.
FilaEscrita(rfc, ente) == FilasSolv(solventaciones, rfc, ClaveSolventacion(ente))

\* C13: a disposition written for (rfc, ente), ente being an entity label, a
\* label the catalog does not know or absent (GENERAL), is what the query
\* paths show for that rfc and that ente: the form of /solventacion shows its
\* state, comment, catalog code and free text, the detail view its state and
\* comment on the records of the entity, and get_estado_rfc_ente its state.
C13_LecturaFiel ==
    /\ (respuesta.ruta = "solventacion_detalle" /\ respuesta.metodo = "GET"
        /\ respuesta.plantilla = "solventacion.html") =>
          \A f \in FilaEscrita(respuesta.rfc, respuesta.ente_sel) :
             /\ respuesta.estado_prev = f.estado
             /\ respuesta.valoracion_prev = f.comentario
             /\ respuesta.catalogo_prev = f.catalogo
             /\ respuesta.otro_texto_prev = f.otro_texto
    /\ (respuesta.ruta = "resultados_por_rfc"
        /\ respuesta.plantilla = "detalle_rfc.html") =>
          \A i \in 1..Len(respuesta.info.registros) :
             \A f \in FilaEscrita(respuesta.info.rfc, respuesta.info.registros[i].ente) :
                /\ respuesta.info.registros[i].estado_ente = f.estado
                /\ respuesta.info.registros[i].comentario_ente = f.comentario
    /\ respuesta.ruta = "get_estado_rfc_ente" =>
          \A f \in FilaEscrita(respuesta.rfc, respuesta.ente) :
             respuesta.estado = f.estado

\* A review without entity was stored as Solventado under GENERAL and the
\* form of /solventacion, asked without entity, shows "Sin valoración".
C13_GeneralPerdida ==
    /\ respuesta.ruta = "solventacion_detalle"
    /\ respuesta.metodo = "GET"
    /\ respuesta.plantilla = "solventacion.html"
    /\ respuesta.ente_sel = None
    /\ \E f \in FilasSolv(solventaciones, respuesta.rfc, "GENERAL") :
          f.estado = "Solventado"
    /\ respuesta.estado_prev = SinValoracion

\* The response of a review action.
EsRevision(r) ==
    \/ r.ruta = "actualizar_estado"
    \/ (r.ruta = "solventacion_detalle" /\ r.metodo = "POST")

\* C14: after every step solventaciones holds at most one row per
\* (rfc, ente-or-GENERAL); a review action leaves the row of its key with the
\* values of that action and every other row as it was, and no other step
\* changes the table: each row carries the values of the latest action for
\* its key.
C14_UltimaAccionPorClave ==
    [][/\ \A f \in BagToSet(solventaciones') : CopiesIn(f, solventaciones') = 1
       /\ \A f, g \in BagToSet(solventaciones') :
             (f.rfc = g.rfc /\ f.ente = g.ente) => f = g
       /\ IF EsRevision(respuesta')
          THEN LET p == respuesta'.peticion
                   fila == FilaSolventacion(p.rfc, p.form.estado, p.form.comentario,
                                            p.form.catalogo, p.form.otro_texto,
                                            p.ente, reloj)
                   otra(f) == ~(f.rfc = fila.rfc /\ f.ente = fila.ente)
               IN /\ fila \in BagToSet(solventaciones')
                  /\ {f \in BagToSet(solventaciones') : otra(f)}
                        = {f \in BagToSet(solventaciones) : otra(f)}
          ELSE solventaciones' = solventaciones]_vars

\* The review of (RFC1, SEGOB) as No Solventado is the row of (RFC1, ENTE_A),
\* next to the row of another key.
C14_FilaDeLaUltima ==
    /\ EsRevision(respuesta)
    /\ respuesta.peticion.ente = "SEGOB"
    /\ respuesta.peticion.form.estado = "No Solventado"
    /\ \E f \in FilasSolv(solventaciones, "RFC1", "ENTE_A") :
          f.estado = "No Solventado" /\ f.comentario = "c2"
    /\ BagCardinality(solventaciones) = 2

\* C15: the state the detail view reports for an rfc follows the states of
\* its entities, an entity without disposition counting as "Sin valoración":
\* the common state when they are all the same, "Mixto" when they differ.
C15_EstadoAgregado ==
    (respuesta.ruta = "resultados_por_rfc"
     /\ respuesta.plantilla = "detalle_rfc.html") =>
        LET info == respuesta.info
            etiquetas == {info.registros[i].ente : i \in 1..Len(info.registros)}
            EstadoDe(e) ==
                IF FilaEscrita(info.rfc, e) = {} THEN SinValoracion
                ELSE (CHOOSE f \in FilaEscrita(info.rfc, e) : TRUE).estado
            estados == {EstadoDe(e) : e \in etiquetas}
        IN info.estado = IF Cardinality(estados) = 1
                         THEN CHOOSE e \in estados : TRUE
                         ELSE "Mixto"

\* The rfc is at ENTE_A and X_9, both reviewed as Solventado, and the detail
\* view reports "Mixto".
C15_DosSolventadosMixto ==
    /\ respuesta.ruta = "resultados_por_rfc"
    /\ respuesta.plantilla = "detalle_rfc.html"
    /\ {respuesta.info.registros[i].ente : i \in 1..Len(respuesta.info.registros)}
          = {"ENTE_A", "X_9"}
    /\ \A e \in {"ENTE_A", "X_9"} :
          \E f \in FilasSolv(solventaciones, respuesta.info.rfc, e) :
             f.estado = "Solventado"
    /\ respuesta.info.estado = "Mixto"

\* C16: each record of a batch that has rfc and ente adds one to insertados
\* when its (rfc, ente) was not in the table just before it was applied, and
\* one to actualizados when it was, from an earlier call or from an earlier
\* record of the same batch.
C16_ContadoresSiguenLaRama ==
    [][\A reg \in RegistrosEntrada :
          (GuardarRegistro(reg) /\ reg.rfc # "" /\ reg.ente # "") =>
             IF FilasDe(registros_laborales, reg.rfc, reg.ente) = {}
             THEN /\ carga'.insertados = carga.insertados + 1
                  /\ carga'.actualizados = carga.actualizados
             ELSE /\ carga'.insertados = carga.insertados
                  /\ carga'.actualizados = carga.actualizados + 1]_vars

\* A batch of two records answered insertados = 2 and the table holds one
\* row: the second record met the pair of the first.
C16_DosInsertadosUnaFila ==
    /\ respuesta.ruta = "upload_laboral"
    /\ respuesta.total_procesados = 2
    /\ respuesta.insertados = 2
    /\ respuesta.actualizados = 0
    /\ BagCardinality(registros_laborales) = 1

\* C17: a record ingested again with the values its row already has leaves
\* fecha_carga of the row as it was and moves fecha_actualizacion to a value
\* later than the one it had.
C17_ActualizacionPosterior ==
    [][\A reg \in RegistrosEntrada :
          GuardarRegistro(reg) =>
             \A f \in FilasDe(registros_laborales, reg.rfc, reg.ente) :
                f.qnas = reg.qnas =>
                   \E g \in FilasDe(registros_laborales', reg.rfc, reg.ente) :
                      /\ g.fecha_carga = f.fecha_carga
                      /\ g.fecha_actualizacion > f.fecha_actualizacion]_vars

\* Two records were applied in one batch within one second and the only row
\* has fecha_actualizacion equal to fecha_carga.
C17_MismoSegundo ==
    /\ carga.activa
    /\ carga.n = 2
    /\ carga.insertados = 2
    /\ BagCardinality(registros_laborales) = 1
    /\ \A f \in BagToSet(registros_laborales) :
          f.fecha_carga = reloj /\ f.fecha_actualizacion = reloj

\* C18: what obtener_cruces_reales returns depends on the rows the table
\* holds and not on the order in which they were inserted: computed over any
\* order of the same rows it is the response, cross-reference by
\* cross-reference (rfc, entes, qnas_cruce and registros).
C18_SinDependenciaDeOrden ==
    respuesta.ruta = "obtener_cruces_reales" =>
        \A o \in OrdenesDe(registros_laborales) :
            ObtenerCrucesRealesEn(o) = respuesta.resultados

\* Two rfcs with a cross-reference each were returned, over a table of four
\* rows.
C18_DosCrucesCuatroFilas ==
    /\ respuesta.ruta = "obtener_cruces_reales"
    /\ Len(respuesta.resultados) = 2
    /\ BagCardinality(registros_laborales) = 4
    /\ Cardinality(OrdenesDe(registros_laborales)) = 24

\* The record an iteration of a concurrent call is about is in the table
\* once, with the periods the call gave, and the call has counted it.
Aplicado(w, reg) ==
    /\ \E f \in FilasDe(registros_laborales', reg.rfc, reg.ente) :
          /\ FilasDe(registros_laborales', reg.rfc, reg.ente) = {f}
          /\ CopiesIn(f, registros_laborales') = 1
          /\ f.qnas = reg.qnas
    /\ escritores'[w].insertados + escritores'[w].actualizados
          = escritores[w].insertados + escritores[w].actualizados + 1

\* C19: with two calls writing at once, every record a call upserts leaves
\* one row for its (rfc, ente) that carries the values of that record (the
\* last to write wins), and is counted by the call: none is skipped because
\* the other call was writing.
C19_UltimoEscritorGana ==
    [][\A w \in Escritores : \A reg \in RegistrosConcurrentes :
          (EscritorInsert(w, reg) \/ EscritorBloqueado(w, reg)) => Aplicado(w, reg)]_vars

\* One call has returned (0, 0) after an iteration over one record while the
\* other, inside its transaction, has written the row of (RFC1, ENTE_A).
C19_RegistroOmitido ==
    \E w \in Escritores : \E v \in Escritores \ {w} :
       /\ escritores[w].pc = "fin"
       /\ escritores[w].n = 1
       /\ escritores[w].insertados + escritores[w].actualizados = 0
       /\ escritores[v].pc = "transaccion"
       /\ FilasDe(registros_laborales, "RFC1", "ENTE_A") # {}

\* C20: the steps of guardar_registros_individuales leave solventaciones as
\* it was, a review leaves registros_laborales as it was, and the detector
\* and the export leave both tables as they were.
C20_PropiedadExclusiva ==
    [][/\ (GuardarInicio \/ GuardarFin
           \/ \E reg \in RegistrosPropiedad : GuardarRegistro(reg))
             => solventaciones' = solventaciones
       /\ (\E ente \in {None, "SEGOB"} : \E form \in FormulariosPropiedad :
              ActualizarEstado("RFC1", ente, form))
             => registros_laborales' = registros_laborales
       /\ (ObtenerCruces \/ ExportarGeneral)
             => /\ registros_laborales' = registros_laborales
                /\ solventaciones' = solventaciones]_vars

\* A batch that met the row of (RFC1, ENTE_A) has ended and the review of
\* (RFC1, ENTE_A) recorded before it is in solventaciones.
C20_RevisionSobrevive ==
    /\ respuesta.ruta = "upload_laboral"
    /\ respuesta.total_procesados = 2
    /\ \E f \in FilasDe(registros_laborales, "RFC1", "ENTE_A") : f.qnas = Qnas
    /\ \E f \in FilasSolv(solventaciones, "RFC1", "ENTE_A") : f.estado = "Solventado"

\* The record of the store a row of the export was built for.
RegistroDe(f) == CHOOSE x \in Filas : x.rfc = f.RFC /\ x.ente = f.ente_origen_raw

\* The rows of the other entities of the rfc of a record.
OtrosDe(rec) == {g \in Filas : g.rfc = rec.rfc /\ g.ente # rec.ente}

\* The label of a set of period tokens: the tokens QNAn in it by ascending n.
ListaDePeriodos(P) ==
    LET nums == {n \in 1..CicloCompleto : ("QNA" \o ToString(n)) \in P}
        iesimo(i) == CHOOSE n \in nums : Cardinality({m \in nums : m < n}) = i - 1
    IN IF Cardinality(nums) >= CicloCompleto THEN "Activo en Todo el Ejercicio"
       ELSE IF nums = {} THEN "N/A"
       ELSE JoinStr([i \in 1..Cardinality(nums) |-> "QNA" \o ToString(iesimo(i))])

\* C21: every row _construir_filas_export builds for a record lists exactly
\* the periods of the record that some other entity of the rfc shares, and as
\* incompatible entities exactly the other entities of the rfc whose periods
\* intersect those of the record, each once, by its catalog alias.
C21_PeriodosYEntesDeLaFila ==
    respuesta.ruta = "_construir_filas_export" =>
        \A n \in 1..Len(respuesta.filas) :
            LET f == respuesta.filas[n]
                rec == RegistroDe(f)
                periodos == {q \in rec.qnas : \E g \in OtrosDe(rec) : q \in g.qnas}
                incompatibles ==
                    {g.ente : g \in {x \in OtrosDe(rec) : (x.qnas \cap rec.qnas) # {}}}
            IN /\ \E x \in Filas : x.rfc = f.RFC /\ x.ente = f.ente_origen_raw
               /\ f.Quincenas = ListaDePeriodos(periodos)
               /\ f.Entes_Incompatibilidad =
                     (IF incompatibles = {} THEN "Sin otros entes"
                      ELSE JoinStr(Sorted({EnteSigla(e) : e \in incompatibles})))

\* Three entities in a chain: the row of ENTE_A lists QNA1 and the
\* municipality only, the row of MUN_1 both periods and both other entities.
C21_CadenaDeTres ==
    /\ respuesta.ruta = "_construir_filas_export"
    /\ \E f \in Rango(respuesta.filas) :
          /\ f.ente_origen_raw = "ENTE_A"
          /\ f.Quincenas = "QNA1"
          /\ f.Entes_Incompatibilidad = "ACUAMANALA"
    /\ \E f \in Rango(respuesta.filas) :
          /\ f.ente_origen_raw = "MUN_1"
          /\ f.Quincenas = "QNA1, QNA2"
          /\ f.Entes_Incompatibilidad = "SEGOB, X_9"

\* The records that overlap another entity of their rfc.
ConSolape == {x \in Filas : \E g \in Filas : SeCruzan(x, g)}

\* C22: /exportar_general holds one row, and only one, for every record that
\* overlaps another entity of its rfc, and no other row; a record of a
\* cross-referenced rfc that overlaps no entity gets the label "N/A" and is
\* not exported. Without such records the answer is 404.
C22_UnaFilaPorRegistroConSolape ==
    /\ respuesta.ruta = "exportar_general" =>
          /\ \A x \in ConSolape :
                Cardinality({n \in 1..Len(respuesta.datos) :
                    /\ respuesta.datos[n].RFC = x.rfc
                    /\ respuesta.datos[n].ente_origen_raw = x.ente}) = 1
          /\ \A n \in 1..Len(respuesta.datos) :
                \E x \in ConSolape : /\ respuesta.datos[n].RFC = x.rfc
                                     /\ respuesta.datos[n].ente_origen_raw = x.ente
          /\ respuesta.status = (IF ConSolape = {} THEN 404 ELSE 200)
    /\ respuesta.ruta = "_construir_filas_export" =>
          \A n \in 1..Len(respuesta.filas) :
              RegistroDe(respuesta.filas[n]) \notin ConSolape
                  <=> respuesta.filas[n].Quincenas = "N/A"

\* Three records of one rfc, each with active periods, one of them
\* overlapping neither of the others: two rows exported.
C22_TerceroSinSolape ==
    /\ respuesta.ruta = "exportar_general"
    /\ Len(respuesta.datos) = 2
    /\ Cardinality(Filas) = 3
    /\ \A x \in Filas : x.qnas # {}

\* The rows of an answer of the export.
FilasDeRespuesta ==
    IF respuesta.ruta = "_construir_filas_export" THEN Rango(respuesta.filas)
    ELSE IF respuesta.ruta = "exportar_general" THEN Rango(respuesta.datos)
    ELSE {}

\* C23: the status of every export row is the state of the review recorded
\* for (rfc, entity of the row) when there is one, and the base status
\* derived from the cross-reference only when there is none.
C23_EstadoDeLaRevision ==
    \A f \in FilasDeRespuesta :
        LET ds == FilasSolv(solventaciones, f.RFC, f.ente_origen_raw)
        IN IF ds # {} THEN \A d \in ds : f.Estatus = d.estado
           ELSE f.Estatus = SinValoracion

\* The row of (RFC1, X_9) is exported as "Sin valoración" while the review
\* recorded for (RFC1, X_9) says "Solventado".
C23_RevisionIgnorada ==
    /\ respuesta.ruta = "exportar_general"
    /\ \E f \in Rango(respuesta.datos) :
          /\ f.RFC = "RFC1" /\ f.ente_origen_raw = "X_9"
          /\ f.Estatus = SinValoracion
    /\ \E d \in FilasSolv(solventaciones, "RFC1", "X_9") : d.estado = "Solventado"

\* The sheets of the upload, by file and position, and their rows.
HojasSubidas ==
    UNION {{<<a, h>> : h \in 1..Len(peticion[a].hojas)} : a \in 1..Len(peticion)}

HojaEn(p) == peticion[p[1]].hojas[p[2]]

ClaveDeHoja(p) == NormalizarEtiquetaSalida(Upper(Strip(HojaEn(p).nombre)))

\* The sheets that are read: their label resolves and the columns are there.
HojasLeidas == {p \in HojasSubidas : ClaveDeHoja(p) # None /\ HojaEn(p).columnas}

FilasSubidas ==
    UNION {{<<p, i>> : i \in 1..Len(HojaEn(p).filas)} : p \in HojasLeidas}

FilaEn(x) == HojaEn(x[1]).filas[x[2]]

\* The rows of the sheets read whose RFC is missing or malformed.
FilasRechazadas == {x \in FilasSubidas : LimpiarRfc(FilaEn(x).RFC) = None}

\* The answer of an upload that was processed.
EsResumen == respuesta.ruta = "upload_laboral" /\ "alertas" \in DOMAIN respuesta

\* C24: a row with a missing or malformed RFC is not stored, the other rows
\* of the upload are stored, and the summary of the upload has a warning for
\* every rejected row besides the alerts of the sheets skipped.
C24_RechazoContadoYAvisado ==
    EsResumen =>
        /\ \A f \in Filas : \E x \in FilasSubidas \ FilasRechazadas :
              /\ f.rfc = LimpiarRfc(FilaEn(x).RFC)
              /\ f.ente = ClaveDeHoja(x[1])
        /\ \A x \in FilasSubidas \ FilasRechazadas :
              FilasDe(registros_laborales, LimpiarRfc(FilaEn(x).RFC),
                      ClaveDeHoja(x[1])) # {}
        /\ Len(respuesta.alertas) =
              Cardinality(HojasSubidas \ HojasLeidas) + Cardinality(FilasRechazadas)

\* A sheet whose first row has a malformed RFC and whose second row is
\* stored: the summary counts one record and has no alert.
C24_RechazoSinAviso ==
    /\ EsResumen
    /\ respuesta.total_procesados = 1
    /\ respuesta.insertados = 1
    /\ respuesta.alertas = <<>>
    /\ \E x \in FilasRechazadas : x[2] = 1 /\ FilaEn(x).RFC = "AB-1"

\* The label of a sheet is the key, the acronym or the name of no row of the
\* catalog.
SinCoincidencia(p) ==
    LET cat == entes \o municipios
        etiqueta == Upper(Strip(HojaEn(p).nombre))
    IN \A i \in 1..Len(cat) :
          etiqueta \notin {Upper(Strip(Or(cat[i].clave, ""))),
                           Upper(Strip(Or(cat[i].siglas, ""))),
                           Upper(Strip(Or(cat[i].nombre, "")))}

\* The usable rows of the sheets whose label the catalog has and whose
\* columns are there.
FilasDeOtrasHojas ==
    {x \in UNION {{<<p, i>> : i \in 1..Len(HojaEn(p).filas)}
                  : p \in {q \in HojasSubidas : ~SinCoincidencia(q) /\ HojaEn(q).columnas}} :
        LimpiarRfc(FilaEn(x).RFC) # None}

\* C25: a sheet whose label the catalog does not have gives no record and
\* exactly one alert, which names the sheet; the usable rows of every other
\* sheet are extracted and stored, and the upload answers with its summary.
C25_HojaOmitidaConAlerta ==
    (respuesta.ruta = "upload_laboral" /\ peticion # <<>>) =>
        /\ EsResumen /\ respuesta.status = 200
        /\ \A p \in {q \in HojasSubidas : SinCoincidencia(q)} :
              LET idx == {i \in 1..Len(respuesta.alertas) :
                             respuesta.alertas[i].hoja = HojaEn(p).nombre}
              IN /\ Cardinality(idx) = 1
                 /\ \A i \in idx :
                       /\ respuesta.alertas[i].tipo = "ente_no_encontrado"
                       /\ Contains(respuesta.alertas[i].mensaje, HojaEn(p).nombre)
        /\ respuesta.total_procesados = Cardinality(FilasDeOtrasHojas)
        /\ \A x \in FilasDeOtrasHojas :
              \E f \in Filas : f.rfc = LimpiarRfc(FilaEn(x).RFC)
        /\ \A f \in Filas : \E x \in FilasDeOtrasHojas :
              f.rfc = LimpiarRfc(FilaEn(x).RFC) /\ f.ente = ClaveDeHoja(x[1])

\* The first sheet is X_9 with a usable row, the second SEGOB with a usable
\* row: one alert, one record stored, under ENTE_A.
C25_PrimeraHojaDesconocida ==
    /\ EsResumen
    /\ Len(peticion[1].hojas) = 2
    /\ peticion[1].hojas[1].nombre = "X_9"
    /\ \E i \in 1..Len(peticion[1].hojas[1].filas) :
          peticion[1].hojas[1].filas[i].RFC = "abcd800101"
    /\ Len(respuesta.alertas) = 1
    /\ respuesta.alertas[1].hoja = "X_9"
    /\ respuesta.total_procesados = 1
    /\ \A f \in Filas : f.ente = "ENTE_A"
    /\ Filas # {}

\* The parts of a hierarchy order as integers, a part that is not a number
\* counting as a large sentinel.
OrdenEsperado(num) ==
    LET partes == SplitPor(RStripPuntos(Strip(num)), ".", "")
    IN [i \in 1..Len(partes) |-> ParteEnteraCentinela(partes[i])]

EnOrdenJerarquico(lista) ==
    \A i, j \in 1..Len(lista) :
        i < j => ~TuplaMenor(OrdenEsperado(lista[j].num), OrdenEsperado(lista[i].num))

\* C26: the catalog page lists the entities, and the municipalities, in the
\* order of their hierarchy numbers compared part by part as integers ("1.2"
\* before "1.10"), a part that is not a number sorting after every number at
\* its position.
C26_OrdenJerarquico ==
    respuesta.ruta = "catalogos" =>
        /\ EnOrdenJerarquico(respuesta.entes)
        /\ EnOrdenJerarquico(respuesta.municipios)

\* Two active entities "1.2" and "1.A" are listed, "1.A" first.
C26_LetraAntesDeNumero ==
    /\ respuesta.ruta = "catalogos"
    /\ \E i, j \in 1..Len(respuesta.entes) :
          /\ i < j
          /\ respuesta.entes[i].num = "1.A"
          /\ respuesta.entes[j].num = "1.2"

\* What a detector reports: rfc, involved entities and overlapping periods
\* of each result.
Reportado(resultados) ==
    {[rfc |-> resultados[i].rfc, entes |-> resultados[i].entes,
      qnas_cruce |-> resultados[i].qnas_cruce] : i \in 1..Len(resultados)}

VersionesDeFila ==
    {[Estatus |-> SinValoracion, Solventacion |-> ""]}
    \cup {[Estatus |-> form.estado, Solventacion |-> form.comentario]
             : form \in FormulariosPropiedad}

\* C28: with reviews served while an export builds its rows, the status and
\* the comment of every row are those of one version of the row's
\* Disposition.
C28_FilaDeUnaVersion ==
    respuesta.ruta = "_construir_filas_export" =>
        \A i \in 1..Len(respuesta.filas) :
            [Estatus |-> respuesta.filas[i].Estatus,
             Solventacion |-> respuesta.filas[i].Solventacion] \in VersionesDeFila

\* An exported row shows the status of one review with the comment of
\* another.
C28_EstadoYComentarioCruzados ==
    /\ respuesta.ruta = "_construir_filas_export"
    /\ \E i \in 1..Len(respuesta.filas) :
          /\ respuesta.filas[i].Estatus = "No Solventado"
          /\ respuesta.filas[i].Solventacion = "c1"

\* The stored records of rfc at an entity shown as sigla that share a period
\* with a record of rfc at one of the labels claves.
ComparteQuincena(rfc, sigla, claves) ==
    \E f, g \in Filas :
        /\ f.rfc = rfc /\ g.rfc = rfc
        /\ EnteSigla(f.ente) = sigla
        /\ g.ente \in claves
        /\ f.qnas \cap g.qnas # {}

\* C29: in the grouped view, every other entity an entry lists under an
\* entity, in "entes" and in "estado_entes", shares an active period with
\* that entity for the rfc of the entry.
C29_ListadosConQuincenaComun ==
    respuesta.ruta = "resultados" =>
        \A n \in DOMAIN respuesta.resultados : \A x \in respuesta.resultados[n] :
            /\ \A sigla \in x.entes : ComparteQuincena(x.rfc, sigla, x.claves)
            /\ \A ee \in x.estado_entes : ComparteQuincena(x.rfc, ee.ente, x.claves)

\* RFC1 is at ENTE_A in QNA1, at MUN_1 in both periods and at X_9 in QNA2,
\* and the entry under ENTE_A lists X_9.
C29_TerceroListado ==
    /\ respuesta.ruta = "resultados"
    /\ \E f, g \in Filas :
          /\ f.ente = "ENTE_A" /\ g.ente = "X_9"
          /\ f.qnas \cap g.qnas = {}
    /\ \E n \in DOMAIN respuesta.resultados : \E x \in respuesta.resultados[n] :
          /\ x.claves = {"ENTE_A"}
          /\ "X_9" \in x.entes

\* The rfcs of the cross-references whose entes hold the key clave.
RfcsConCruceEn(clave) ==
    {ResultadosFiltrados[i].rfc :
        i \in {j \in 1..Len(ResultadosFiltrados) :
                  clave \in Rango(ResultadosFiltrados[j].entes)}}

\* The distinct rfcs stored at the key clave.
RfcsEn(clave) == {f.rfc : f \in {g \in Filas : g.ente = clave}}

\* C30: in the grouped view, the duplicates count of every catalog entity
\* listed is the number of cross-referenced rfcs whose entes hold its key,
\* and its worker total is the number of distinct rfcs stored at its key,
\* with or without an acronym and whatever the case of its acronym or name.
C30_TotalesPorEnte ==
    respuesta.ruta = "resultados" =>
        \A i \in 1..Len(respuesta.entes_info) :
            LET info == respuesta.entes_info[i].v
            IN /\ info.duplicados = Cardinality(RfcsConCruceEn(info.clave))
               /\ info.total = Cardinality(RfcsEn(info.clave))

\* RFC1 is stored at MUN_1, which has a name in mixed case and no acronym,
\* in a cross-reference, and the view reports no worker and no duplicate
\* for it.
C30_MunicipioEnCeros ==
    /\ respuesta.ruta = "resultados"
    /\ RfcsEn("MUN_1") # {}
    /\ RfcsConCruceEn("MUN_1") # {}
    /\ \E i \in 1..Len(respuesta.entes_info) :
          /\ respuesta.entes_info[i].v.clave = "MUN_1"
          /\ respuesta.entes_info[i].v.total = 0
          /\ respuesta.entes_info[i].v.duplicados = 0

====
